---- MODULE Spec2Model ----
(***************************************************************************)
(* Flood ingestion pipeline of the emergency signal platform:              *)
(*   src/server/api.ts (lines 1-336)  fetcher, source cache, deriver,      *)
(*                                    store, freshness check               *)
(*   src/server/cache.ts (274-313)    GET /api/floods handler              *)
(*   src/server/cache.ts (18-116)     CacheManager, the in-memory cache     *)
(*   src/server/middleware.ts (4-48)  validateTimeRange, rateLimit          *)
(* The server is one Node.js process: the code between two awaits runs    *)
(* without interruption, every await of I/O (HTTP call, SQL statement,     *)
(* timer) is a point where other requests may run.  Each action below is   *)
(* one such uninterrupted piece of code.                                   *)
(***************************************************************************)
EXTENDS Integers, Sequences, FiniteSets, TLC

----------------------------------------------------------------------------
(* Bounds of the model *)

\* requests received in one behaviour
MaxRequests == 2
\* successful answers (pages, end of data) the upstream gives one fetcher run:
\* in the specification of the fetcher alone / of the whole pipeline
MaxAnswers == 2
MaxPipelineAnswers == 1
\* clock ticks in one behaviour
MaxTicks == 1

\* calls of CacheManager's public methods in one behaviour
MaxCacheCalls == 3
\* requests that reach the rate limiter in one behaviour, and the limit
\* (maxRequests) the limiter is created with
MaxLimiterCalls == 5
LimiterMaxRequests == 2

\* The requests in progress at the same time
Handlers == {1, 2}

\* flooding points / at-risk points of the largest snapshots that are derived
MaxActive == 51
MaxEligible == 60

----------------------------------------------------------------------------
(* Program constants.  Time is counted in seconds (TLC's integers are 32 bits
   wide and the month window, 2592000000 ms, does not fit): every duration of
   the code is a whole number of seconds, so 1000 ms is written 1. *)

limit == 10
maxRetries == 5
maxConsecutiveErrors == 10
REFERENCE_POINTS_CACHE_TTL == 24 * 60 * 60
FRESHNESS_INTERVAL == 5 * 60
politenessDelay == 1
otherErrorDelay == 2
backoff403Base == 3
backoff429Step == 10
maxResults == 50
backfillThreshold == 10

validRanges == {"hour", "day", "week", "month"}

timeRangeMs(timeRange) ==
  CASE timeRange = "hour" -> 3600
    [] timeRange = "day" -> 86400
    [] timeRange = "week" -> 604800
    [] timeRange = "month" -> 2592000
    [] OTHER -> 3600

----------------------------------------------------------------------------
(* Values *)

\* An optional JavaScript value is a sequence: <<>> when the field is absent,
\* <<v>> when it is present with value v.
Absent == <<>>

\* JavaScript truthiness of an optional number: absent and 0 are falsy
TruthyNum(x) == x # Absent /\ x[1] # 0

\* point.is_flooding === true
IsTrue(x) == x = <<TRUE>>

\* JavaScript truthiness of an optional boolean
TruthyBool(x) == x = <<TRUE>>

Min(a, b) == IF a <= b THEN a ELSE b

Pow2(n) == 2 ^ n

\* Array.prototype.slice(0, n) for n >= 0
Slice(s, n) == SubSeq(s, 1, Min(n, Len(s)))

\* x || d for an optional number
OrDefault(x, d) == IF TruthyNum(x) THEN x[1] ELSE d

----------------------------------------------------------------------------
(* Raw reference points handed out by the upstream *)

RawPoint(id, fl, gh, rp, lon, lat, name) ==
  [id |-> id, is_flooding |-> fl, gage_height |-> gh, rp_elevation |-> rp,
   longitude |-> lon, latitude |-> lat, site_name |-> name]

PtFlooding == RawPoint(<<"1">>, <<TRUE>>, Absent, Absent, <<-90>>, <<30>>, "Baton Rouge")
PtAtRisk == RawPoint(<<"2">>, <<FALSE>>, <<5>>, <<7>>, <<-95>>, <<29>>, "")

\* The pages the upstream may answer with (a page may hold fewer than `limit`
\* items: the code never looks at a page's length beyond zero / non-zero).
PageSet == {<<PtFlooding>>, <<PtAtRisk>>}
PipelinePageSet == {<<PtFlooding, PtAtRisk>>}

\* The pages of the pipeline by offset: a later page holds another point
PtDownstream == RawPoint(<<"3">>, <<TRUE>>, <<4>>, <<6>>, <<-91>>, <<31>>, "Natchez")
PipelinePages(skip) == IF skip = 0 THEN PipelinePageSet ELSE {<<PtDownstream>>}

\* HTTP failures: 403, 429, another status, or no response at all (0: timeout,
\* connection error), in which case error.response is undefined.
AllStatuses == {403, 429, 500, 0}

ErrorResponses(statuses) == {[kind |-> "error", status |-> st, data |-> <<>>] : st \in statuses}

\* response.data that is missing or is not an array
EndResponses == {[kind |-> k, status |-> 200, data |-> <<>>] : k \in {"nodata", "nonarray"}}

\* response.data that is an array (possibly empty)
ArrayResponses(pages) == {[kind |-> "array", status |-> 200, data |-> d] : d \in pages \cup {<<>>}}

----------------------------------------------------------------------------
(* Time-range deriver: the pure part of fetchAndStoreFloods *)

IsFloodingPoint(point) == IsTrue(point.is_flooding)

IsAtRiskPoint(point) ==
  /\ ~TruthyBool(point.is_flooding)
  /\ TruthyNum(point.gage_height)
  /\ TruthyNum(point.rp_elevation)

MarkNotFlooding(points) ==
  [i \in 1..Len(points) |-> [points[i] EXCEPT !.is_flooding = <<FALSE>>]]

\* A selection without the final cap
SelectFloodingPoints_Uncapped(allReferencePoints) ==
  LET flooding == SelectSeq(allReferencePoints, IsFloodingPoint)
      additionalPoints ==
        MarkNotFlooding(Slice(SelectSeq(allReferencePoints, IsAtRiskPoint),
                              Min(50, 50 - Len(flooding))))
  IN IF Len(flooding) < backfillThreshold
     THEN flooding \o additionalPoints
     ELSE flooding

\* api.ts 197-221: selection, backfill, cap
SelectFloodingPoints(allReferencePoints) ==
  LET flooding == SelectSeq(allReferencePoints, IsFloodingPoint)
      additionalPoints ==
        MarkNotFlooding(Slice(SelectSeq(allReferencePoints, IsAtRiskPoint),
                              Min(50, 50 - Len(flooding))))
      combined == IF Len(flooding) < backfillThreshold
                  THEN flooding \o additionalPoints
                  ELSE flooding
  IN Slice(combined, maxResults)

\* `flood_${point.id}_${timeRange}`: strings are sequences of characters
Chars(timeRange) ==
  CASE timeRange = "hour" -> <<"h", "o", "u", "r">>
    [] timeRange = "day" -> <<"d", "a", "y">>
    [] timeRange = "week" -> <<"w", "e", "e", "k">>
    [] timeRange = "month" -> <<"m", "o", "n", "t", "h">>
    [] OTHER -> <<timeRange>>

\* A deriver whose ids leave out the partition
FloodId_NoPartition(pointId, timeRange) ==
  <<"f", "l", "o", "o", "d", "_">> \o pointId

FloodId(pointId, timeRange) ==
  <<"f", "l", "o", "o", "d", "_">> \o pointId \o <<"_">> \o Chars(timeRange)

\* Math.random() is in [0, 1): the draw is num / RandomDenominator
RandomDenominator == 2
RandomNumerators == 0..(RandomDenominator - 1)

Severity(point) == IF TruthyBool(point.is_flooding) THEN "major" ELSE "minor"

\* A deriver that adds the random offset to the clock
MapToFlood_Later(point, timeRange, nowMs, num) ==
  [id |-> FloodId(point.id, timeRange),
   timestamp |-> nowMs + ((num * timeRangeMs(timeRange)) \div RandomDenominator),
   longitude |-> OrDefault(point.longitude, 0),
   latitude |-> OrDefault(point.latitude, 0),
   severity |-> Severity(point),
   area_affected |-> IF point.site_name # "" THEN point.site_name ELSE "Unknown Area",
   source |-> "USGS Real-Time Flood Impacts",
   time_range |-> timeRange]

\* api.ts 236-250: one flood record of a selected point
MapToFlood(point, timeRange, nowMs, num) ==
  [id |-> FloodId(point.id, timeRange),
   timestamp |-> nowMs - ((num * timeRangeMs(timeRange)) \div RandomDenominator),
   longitude |-> OrDefault(point.longitude, 0),
   latitude |-> OrDefault(point.latitude, 0),
   severity |-> Severity(point),
   area_affected |-> IF point.site_name # "" THEN point.site_name ELSE "Unknown Area",
   source |-> "USGS Real-Time Flood Impacts",
   time_range |-> timeRange]

\* api.ts 197-250: rnd[i] is the random draw of the i-th selected point
Derive(allReferencePoints, timeRange, nowMs, rnd) ==
  LET floodingPoints == SelectFloodingPoints(allReferencePoints)
  IN [i \in 1..Len(floodingPoints) |->
        MapToFlood(floodingPoints[i], timeRange, nowMs, rnd[i])]

----------------------------------------------------------------------------
(* State *)

VARIABLES
  now,                       \* Date.now() / the SQL server's NOW(), in seconds
  ticks,                     \* number of clock ticks taken (bounded)
  allReferencePointsCache,   \* api.ts 10: Null, or <<the snapshot>>
  referencePointsCacheTime,  \* api.ts 11
  floods,                    \* committed rows of table floods
  cache_metadata,            \* committed rows of table cache_metadata
  pc,                        \* per request handler: the await it is suspended at
  req,                       \* per request handler: locals of the /api/floods handler
  fetch,                     \* per request handler: locals of fetchAllReferencePointsFromAPI
  txn,                       \* per request handler: locals and open transaction of storeFloods
  requests,                  \* number of requests received so far (bounded)
  batches,                   \* number of storeFloods calls so far (tags the rows of a call)
  sweepLog,                  \* history: the fetcher runs started, by request and time
  cacheManager,              \* cache.ts 119: the CacheManager instance (cache, stats)
  cacheTrace,                \* history: the calls of CacheManager's methods
  requestCounts,             \* middleware.ts 24: Map from ip to {count, resetTime}
  limitTrace                 \* history: the requests the rate limiter has seen

vars == <<now, ticks, allReferencePointsCache, referencePointsCacheTime, floods,
          cache_metadata, pc, req, fetch, txn, requests, batches, sweepLog,
          cacheManager, cacheTrace, requestCounts, limitTrace>>

\* No snapshot (allReferencePointsCache = null); the array s is held as <<s>>
Null == <<>>

\* The locals of one handler invocation and its response (status, floods).
\* History: n numbers the request, calledAt is the time of its freshness query,
\* sweep says how the fetcher run made for it ended, query is the timeRange
\* parameter the request came with.
ReqIdle ==
  [n |-> 0, timeRange |-> "hour", cacheValid |-> FALSE, calledAt |-> 0,
   allReferencePoints |-> <<>>, status |-> 0, floods |-> <<>>, sweep |-> "none",
   query |-> [kind |-> "undefined", value |-> ""]]

\* The locals of the fetcher and of the getCachedReferencePoints that called it
\* (now), and the history of the run: answered counts the calls the upstream
\* answered, exhausted says that it answered with the end of the data, stop
\* names the break that ended the run, lastWait is the duration of the delay()
\* the run is in or has last left, waited the sum of the delays since the
\* retry loop of the current page was entered, errors the statuses of the
\* failed attempts since then, attempted the offset of the last upstream call
\* and the number of calls made with that offset, pages the non-empty pages the
\* upstream answered with and the offsets they were requested with
FetchIdle ==
  [allPoints |-> <<>>, skip |-> 0, retries |-> 0, success |-> FALSE,
   consecutiveErrors |-> 0, now |-> 0,
   answered |-> 0, exhausted |-> FALSE, stop |-> "none", lastWait |-> 0, waited |-> 0,
   errors |-> <<>>, attempted |-> [skip |-> 0, calls |-> 0], pages |-> <<>>]

\* The locals of storeFloods and its open transaction: the statements executed
\* so far (deleted, inserted, meta, metaTime) become visible at COMMIT.  History:
\* batch numbers the call, outcome says how it ended, freshBefore whether the
\* partition was fresh when it committed, acquired and released count the
\* connections the call got from the pool and gave back to it.
TxnIdle ==
  [floods |-> <<>>, timeRange |-> "hour", batch |-> 0, connection |-> FALSE,
   acquired |-> 0, released |-> 0,
   deleted |-> FALSE, inserted |-> FALSE, meta |-> "none", metaTime |-> 0,
   outcome |-> "none", freshBefore |-> FALSE]

\* The keys and the data the callers of the CacheManager use
CacheKeys == {"floods_hour", "floods_day"}
CacheData == {"a", "b"}

\* cache.ts 23-27: the instance after construction (the Map is a function
\* whose domain are the keys it holds)
CacheManagerNew ==
  [cache |-> [key \in {} |-> <<>>], stats |-> [hits |-> 0, misses |-> 0, size |-> 0]]

\* History of the CacheManager: calls counts the calls of get, set, delete and
\* clear; lastSet[key] is <<>> if key was never set or was deleted or cleared
\* since, else <<the data and the time of its latest set>>; last is the latest
\* call with the time it was made at and what it returned
CacheTraceIdle ==
  [calls |-> 0,
   lastSet |-> [key \in CacheKeys |-> <<>>],
   last |-> [op |-> "none", key |-> "", at |-> 0, result |-> <<>>]]

\* middleware.ts 24: new Map()
RequestCountsNew == [ip \in {} |-> <<>>]

\* History of the rate limiter: calls counts the requests it has seen, passes
\* holds the requests it passed on with next() (the client, the time, the
\* number of the request), last is its latest decision (0: next())
LimitTraceIdle ==
  [calls |-> 0, passes |-> {}, last |-> [ip |-> "", at |-> 0, status |-> 0]]

Init ==
  /\ now = 0
  /\ ticks = 0
  /\ allReferencePointsCache = Null
  /\ referencePointsCacheTime = 0
  /\ floods = {}
  /\ cache_metadata = {}
  /\ pc = [h \in Handlers |-> "idle"]
  /\ req = [h \in Handlers |-> ReqIdle]
  /\ fetch = [h \in Handlers |-> FetchIdle]
  /\ txn = [h \in Handlers |-> TxnIdle]
  /\ requests = 0
  /\ batches = 0
  /\ sweepLog = {}
  /\ cacheManager = CacheManagerNew
  /\ cacheTrace = CacheTraceIdle
  /\ requestCounts = RequestCountsNew
  /\ limitTrace = LimitTraceIdle

\* Continuations of resolved promises run before any I/O completion, timer or
\* new request is handled: while one is pending nothing else happens.
MicrotaskPcs == {"gcrResume", "fasResume"}

Quiet == \A h \in Handlers : pc[h] \notin MicrotaskPcs

----------------------------------------------------------------------------
(* SQL *)

\* NOW() / CURRENT_TIMESTAMP of the SQL server, which shares the clock
SqlNow(t) == t

\* A freshness query that counts the row as fresh for 5 minutes inclusive
IsCacheValid_Inclusive(timeRange, t) ==
  \E row \in cache_metadata :
    /\ row.cache_key = timeRange
    /\ row.last_updated >= SqlNow(t) - FRESHNESS_INTERVAL

\* api.ts 326-336
IsCacheValid(timeRange, t) ==
  \E row \in cache_metadata :
    /\ row.cache_key = timeRange
    /\ row.last_updated > SqlNow(t) - FRESHNESS_INTERVAL

\* Character codes of the letters the severities are written with
CharCode(c) ==
  CASE c = "a" -> 97 [] c = "d" -> 100 [] c = "e" -> 101 [] c = "i" -> 105
    [] c = "j" -> 106 [] c = "k" -> 107 [] c = "m" -> 109 [] c = "n" -> 110
    [] c = "o" -> 111 [] c = "r" -> 114 [] c = "t" -> 116 [] c = "u" -> 117
    [] c = "w" -> 119

SeverityChars(severity) ==
  CASE severity = "major" -> <<"m", "a", "j", "o", "r">>
    [] severity = "moderate" -> <<"m", "o", "d", "e", "r", "a", "t", "e">>
    [] severity = "minor" -> <<"m", "i", "n", "o", "r">>
    [] severity = "unknown" -> <<"u", "n", "k", "n", "o", "w", "n">>

\* s < t for two VARCHAR values (sequences of characters)
RECURSIVE StringLess(_, _)
StringLess(s, t) ==
  IF t = <<>> THEN FALSE
  ELSE IF s = <<>> THEN TRUE
  ELSE IF CharCode(Head(s)) # CharCode(Head(t))
       THEN CharCode(Head(s)) < CharCode(Head(t))
       ELSE StringLess(Tail(s), Tail(t))

\* ORDER BY severity DESC: severity is a VARCHAR column, no further sort key
OrderedBySeverityDesc(rows) ==
  \A i \in 1..(Len(rows) - 1) :
    ~StringLess(SeverityChars(rows[i].severity), SeverityChars(rows[i + 1].severity))

\* api.ts 316-323: the result sets the SELECT may return
GetFloodsResults(timeRange) ==
  LET selected == {row \in floods : row.time_range = timeRange}
      n == Cardinality(selected)
  IN {rows \in [1..n -> selected] :
        /\ \A i, j \in 1..n : i # j => rows[i] # rows[j]
        /\ OrderedBySeverityDesc(rows)}

\* The rows an INSERT ... VALUES ? of storeFloods writes
InsertValues(t) ==
  {[f EXCEPT !.time_range = t.timeRange] @@ [batch |-> t.batch] :
     f \in {t.floods[i] : i \in 1..Len(t.floods)}}

\* id is the PRIMARY KEY of floods: the INSERT fails on a repeated id
DuplicateKey(t) ==
  \/ \E i, j \in 1..Len(t.floods) : i # j /\ t.floods[i].id = t.floods[j].id
  \/ \E i \in 1..Len(t.floods) :
       \E row \in floods : row.time_range # t.timeRange /\ row.id = t.floods[i].id

\* A store whose INSERT leaves out the last record
CommittedFloods_Omitting(t) ==
  (IF t.deleted THEN {row \in floods : row.time_range # t.timeRange} ELSE floods)
    \cup (IF t.inserted
          THEN InsertValues([t EXCEPT !.floods = SubSeq(t.floods, 1, Len(t.floods) - 1)])
          ELSE {})

\* A store that inserts without deleting the partition's old rows
CommittedFloods_NoDelete(t) ==
  floods \cup (IF t.inserted THEN InsertValues(t) ELSE {})

\* A store whose DELETE has no WHERE clause
CommittedFloods_DeleteAll(t) ==
  {row \in floods : ~t.deleted}
    \cup (IF t.inserted THEN InsertValues(t) ELSE {})

\* COMMIT: what the transaction of storeFloods makes visible, all at once
CommittedFloods(t) ==
  {row \in floods : ~(t.deleted /\ row.time_range = t.timeRange)}
    \cup (IF t.inserted THEN InsertValues(t) ELSE {})

\* A store that writes the metadata row also for an empty result (as the
\* earlier storeFloods of api.ts 609-612 does)
CommittedMetadata_AlwaysUpsert(t) ==
  IF t.meta = "none" THEN cache_metadata
  ELSE {row \in cache_metadata : row.cache_key # t.timeRange}
         \cup {[cache_key |-> t.timeRange, last_updated |-> t.metaTime,
                 record_count |-> Len(t.floods), batch |-> t.batch]}

\* A store that leaves the metadata row alone for an empty result
CommittedMetadata_KeepOnEmpty(t) ==
  IF t.meta # "upsert" THEN cache_metadata
  ELSE {row \in cache_metadata : row.cache_key # t.timeRange}
         \cup {[cache_key |-> t.timeRange, last_updated |-> t.metaTime,
                 record_count |-> Len(t.floods), batch |-> t.batch]}

CommittedMetadata(t) ==
  IF t.meta = "none" THEN cache_metadata
  ELSE {row \in cache_metadata : row.cache_key # t.timeRange}
         \cup (IF t.meta = "upsert"
               THEN {[cache_key |-> t.timeRange, last_updated |-> t.metaTime,
                      record_count |-> Len(t.floods), batch |-> t.batch]}
               ELSE {})

----------------------------------------------------------------------------
(* Reference point fetcher: fetchAllReferencePointsFromAPI, api.ts 55-163 *)

\* api.ts 56-66: the locals at the first axios.get; gcrNow is the `now` of the
\* calling getCachedReferencePoints
FetchStart(gcrNow) ==
  [FetchIdle EXCEPT !.now = gcrNow]

\* A fetcher that gives up its accumulated points when it stops on failures
AfterRetryLoop_DiscardOnAbort(f) ==
  IF f.consecutiveErrors >= maxConsecutiveErrors
  THEN [pc |-> "gcrResume", f |-> [f EXCEPT !.stop = "breaker", !.allPoints = <<>>]]
  ELSE IF ~f.success
  THEN [pc |-> "gcrResume", f |-> [f EXCEPT !.stop = "retries", !.allPoints = <<>>]]
  ELSE [pc |-> "axiosGet", f |-> [f EXCEPT !.retries = 0, !.success = FALSE, !.waited = 0,
                                           !.errors = <<>>]]

\* A fetcher without `if (!success) break`: only the breaker ends the run
AfterRetryLoop_BreakerOnly(f) ==
  IF f.consecutiveErrors >= maxConsecutiveErrors
  THEN [pc |-> "gcrResume", f |-> [f EXCEPT !.stop = "breaker"]]
  ELSE [pc |-> "axiosGet", f |-> [f EXCEPT !.retries = 0, !.success = FALSE, !.waited = 0,
                                           !.errors = <<>>]]

\* api.ts 145-156, then 63-67 of the next round of while (true): where the code
\* goes once the inner loop is left
AfterRetryLoop(f) ==
  IF f.consecutiveErrors >= maxConsecutiveErrors
  THEN [pc |-> "gcrResume", f |-> [f EXCEPT !.stop = "breaker"]]
  ELSE IF ~f.success
  THEN [pc |-> "gcrResume", f |-> [f EXCEPT !.stop = "retries"]]
  ELSE [pc |-> "axiosGet", f |-> [f EXCEPT !.retries = 0, !.success = FALSE, !.waited = 0,
                                           !.errors = <<>>]]

\* api.ts 67: the test of the inner loop
RetryLoop(f) ==
  IF f.retries < maxRetries /\ ~f.success
  THEN [pc |-> "axiosGet", f |-> f]
  ELSE AfterRetryLoop(f)

\* api.ts 50-52: await delay(ms)
Sleep(f, ms) == [pc |-> "delay", f |-> [f EXCEPT !.lastWait = ms, !.waited = @ + ms]]

\* api.ts 87-98: the page that ends the pagination
OnEndOfData(f) ==
  AfterRetryLoop([f EXCEPT !.success = TRUE, !.consecutiveErrors = 0,
                           !.exhausted = TRUE, !.answered = @ + 1])

\* A fetcher that does not advance its offset
OnPage_KeepOffset(f, data) ==
  Sleep([f EXCEPT !.allPoints = @ \o data, !.success = TRUE,
                  !.consecutiveErrors = 0, !.answered = @ + 1,
                  !.pages = Append(@, [skip |-> f.skip, data |-> data])],
        politenessDelay)

\* api.ts 100-108: a page with items
OnPage(f, data) ==
  Sleep([f EXCEPT !.allPoints = @ \o data, !.skip = @ + limit, !.success = TRUE,
                  !.consecutiveErrors = 0, !.answered = @ + 1,
                  !.pages = Append(@, [skip |-> f.skip, data |-> data])],
        politenessDelay)

\* A backoff that grows by 3 s per failed attempt
WaitTime403_Linear(retries) == backoff403Base * retries

\* api.ts 119
WaitTime403(retries) == backoff403Base * Pow2(retries - 1)

\* A backoff that doubles with every failed attempt
WaitTime429_Exponential(retries) == backoff429Step * Pow2(retries - 1)

\* api.ts 128
WaitTime429(retries) == backoff429Step * retries

\* api.ts 109-142: the catch block
OnError(f, status) ==
  LET g == [f EXCEPT !.retries = @ + 1, !.consecutiveErrors = @ + 1,
                     !.errors = Append(@, status)]
  IN IF status = 403 THEN Sleep(g, WaitTime403(g.retries))
     ELSE IF status = 429 THEN Sleep(g, WaitTime429(g.retries))
     ELSE IF g.retries < maxRetries THEN Sleep(g, otherErrorDelay)
     ELSE RetryLoop(g)

\* api.ts 73-142: everything from the completion of axios.get to the next await
OnResponse(f, r) ==
  IF r.kind = "error" THEN OnError(f, r.status)
  ELSE IF r.kind # "array" \/ Len(r.data) = 0 THEN OnEndOfData(f)
  ELSE OnPage(f, r.data)

\* What the upstream may answer a call of the run whose locals are f: it fails
\* with one of `statuses`, or (at most maxAnswers times in one run) it answers
\* with one of `pages` or with the end of the data
Upstream(f, statuses, pages, maxAnswers) ==
  ErrorResponses(statuses)
    \cup (IF f.answered < maxAnswers THEN EndResponses \cup ArrayResponses(pages) ELSE {})

\* An upstream that, once it has failed a call of a run, fails the rest of the run
UpstreamOutage(f, statuses, pages, maxAnswers) ==
  IF f.retries > 0 THEN ErrorResponses(statuses)
  ELSE Upstream(f, statuses, pages, maxAnswers)

\* The upstream calls made so far with the offset f.skip
CallsAt(f) == IF f.attempted.skip = f.skip THEN f.attempted.calls ELSE 0

\* A fetcher that publishes the points it has accumulated after every call
AxiosGetReturn_Publishing(h, r) ==
  /\ Quiet
  /\ pc[h] = "axiosGet"
  /\ LET called == [fetch[h] EXCEPT !.attempted = [skip |-> fetch[h].skip,
                                                   calls |-> CallsAt(fetch[h]) + 1]]
         next == OnResponse(called, r)
     IN /\ pc' = [pc EXCEPT ![h] = next.pc]
        /\ fetch' = [fetch EXCEPT ![h] = next.f]
        /\ allReferencePointsCache' = <<next.f.allPoints>>
  /\ UNCHANGED <<cacheManager, cacheTrace, requestCounts, limitTrace,
                 now, ticks, referencePointsCacheTime,
                 floods, cache_metadata, req, txn, requests, batches, sweepLog>>

AxiosGetReturn(h, r) ==
  /\ Quiet
  /\ pc[h] = "axiosGet"
  /\ LET called == [fetch[h] EXCEPT !.attempted = [skip |-> fetch[h].skip,
                                                   calls |-> CallsAt(fetch[h]) + 1]]
         next == OnResponse(called, r)
     IN /\ pc' = [pc EXCEPT ![h] = next.pc]
        /\ fetch' = [fetch EXCEPT ![h] = next.f]
  /\ UNCHANGED <<cacheManager, cacheTrace, requestCounts, limitTrace,
                 now, ticks, allReferencePointsCache, referencePointsCacheTime,
                 floods, cache_metadata, req, txn, requests, batches, sweepLog>>

\* api.ts 108, 123, 132, 139: the timer of delay() fires.  The clock of the
\* model resolves no span shorter than its ticks: how long the fetcher slept
\* is kept in lastWait and waited.
DelayDone(h) ==
  /\ Quiet
  /\ pc[h] = "delay"
  /\ LET next == RetryLoop(fetch[h])
     IN /\ pc' = [pc EXCEPT ![h] = next.pc]
        /\ fetch' = [fetch EXCEPT ![h] = next.f]
  /\ UNCHANGED <<cacheManager, cacheTrace, requestCounts, limitTrace,
                 now, ticks, allReferencePointsCache, referencePointsCacheTime,
                 floods, cache_metadata, req, txn, requests, batches, sweepLog>>

----------------------------------------------------------------------------
(* Source cache: getCachedReferencePoints, api.ts 166-186 *)

\* A snapshot that is used for 24 hours inclusive
SnapshotValid_Inclusive(t) ==
  /\ allReferencePointsCache # Null
  /\ t - referencePointsCacheTime <= REFERENCE_POINTS_CACHE_TTL

\* A snapshot that expires with the partitions, after 5 minutes
SnapshotValid_FreshnessWindow(t) ==
  /\ allReferencePointsCache # Null
  /\ t - referencePointsCacheTime < FRESHNESS_INTERVAL

\* api.ts 170-173
SnapshotValid(t) ==
  /\ allReferencePointsCache # Null
  /\ t - referencePointsCacheTime < REFERENCE_POINTS_CACHE_TTL

\* How a fetcher run ended, given the snapshot it found when it returned: with
\* the points of at least one page ("partial": every run ends on failed calls),
\* with no point after the upstream had answered with the end of the data
\* ("empty"), or with every call failed, without ("unavailable") or with
\* ("failed") a snapshot to fall back on
SweepOutcome(f, prior) ==
  IF f.skip > 0 THEN "partial"
  ELSE IF f.answered > 0 THEN "empty"
  ELSE IF prior = Null THEN "unavailable"
  ELSE "failed"

\* A refresh that assigns the snapshot and leaves its time for later
GcrResume_SnapshotOnly(h) ==
  /\ pc[h] = "gcrResume"
  /\ allReferencePointsCache' = <<fetch[h].allPoints>>
  /\ req' = [req EXCEPT ![h].allReferencePoints = fetch[h].allPoints,
                        ![h].sweep = SweepOutcome(fetch[h], allReferencePointsCache)]
  /\ fetch' = [fetch EXCEPT ![h] = FetchIdle]
  /\ pc' = [pc EXCEPT ![h] = "fasResume"]
  /\ UNCHANGED <<cacheManager, cacheTrace, requestCounts, limitTrace,
                 now, ticks, referencePointsCacheTime, floods, cache_metadata, txn,
                 requests, batches, sweepLog>>

\* api.ts 182-185: fetchAll has returned; the snapshot and its time are assigned
GcrResume(h) ==
  /\ pc[h] = "gcrResume"
  /\ allReferencePointsCache' = <<fetch[h].allPoints>>
  /\ referencePointsCacheTime' = fetch[h].now
  /\ req' = [req EXCEPT ![h].allReferencePoints = fetch[h].allPoints,
                        ![h].sweep = SweepOutcome(fetch[h], allReferencePointsCache)]
  /\ fetch' = [fetch EXCEPT ![h] = FetchIdle]
  /\ pc' = [pc EXCEPT ![h] = "fasResume"]
  /\ UNCHANGED <<cacheManager, cacheTrace, requestCounts, limitTrace,
                 now, ticks, floods, cache_metadata, txn, requests, batches, sweepLog>>

----------------------------------------------------------------------------
(* GET /api/floods, cache.ts 274-313 *)

\* cache.ts 291-298 / 299-311: the response is sent, the handler is done
Respond(r, status, rows) == [r EXCEPT !.status = status, !.floods = rows]

\* req.query.timeRange as Express parses it: undefined when the parameter is
\* missing, a string (possibly empty) when it is given once, an array when it
\* is given several times
QueryUndefined == [kind |-> "undefined", value |-> ""]
QueryString(string) == [kind |-> "string", value |-> string]
QueryArray(string) == [kind |-> "array", value |-> string]

\* JavaScript truthiness of the parameter: an array is truthy, the empty
\* string and undefined are not
QueryTruthy(query) ==
  query.kind = "array" \/ (query.kind = "string" /\ query.value # "")

\* middleware.ts 10-12: validRanges.includes(timeRange) compares with ===
Includes(query) == query.kind = "string" /\ query.value \in validRanges

\* A middleware that lets every request pass
ValidateTimeRange_AcceptAll(query) == TRUE

\* middleware.ts 4-21: TRUE when validateTimeRange calls next()
ValidateTimeRange(query) == ~(QueryTruthy(query) /\ ~Includes(query))

\* cache.ts 277: (req.query.timeRange as string) || "hour"
HandlerTimeRange(query) == IF QueryTruthy(query) THEN query.value ELSE "hour"

\* A request arrives: validateTimeRange (middleware.ts 4-21) answers 400 or
\* lets it pass to the handler, cache.ts 277-283 up to the await of isCacheValid
Receive(h, query) ==
  /\ Quiet
  /\ pc[h] = "idle"
  /\ \A g \in Handlers : g < h => pc[g] # "idle"
  /\ requests < MaxRequests
  /\ requests' = requests + 1
  /\ IF ValidateTimeRange(query)
     THEN /\ req' = [req EXCEPT ![h] = [ReqIdle EXCEPT !.n = requests + 1,
                                                       !.timeRange = HandlerTimeRange(query),
                                                       !.query = query]]
          /\ pc' = [pc EXCEPT ![h] = "isCacheValid"]
     ELSE /\ req' = [req EXCEPT ![h] = [ReqIdle EXCEPT !.n = requests + 1,
                                                       !.status = 400,
                                                       !.query = query]]
          /\ pc' = [pc EXCEPT ![h] = "responded"]
  /\ UNCHANGED <<cacheManager, cacheTrace, requestCounts, limitTrace,
                 now, ticks, allReferencePointsCache, referencePointsCacheTime,
                 floods, cache_metadata, fetch, txn, batches, sweepLog>>

\* A request with a valid timeRange arrives
Request(h, timeRange) == Receive(h, QueryString(timeRange))

\* A handler that refreshes the partition whatever the freshness query answers
IsCacheValidReturn_AlwaysRefresh(h, ok) ==
  /\ Quiet
  /\ pc[h] = "isCacheValid"
  /\ LET cacheValid == IsCacheValid(req[h].timeRange, now)
         r == [req[h] EXCEPT !.cacheValid = cacheValid, !.calledAt = now]
     IN IF ~ok THEN
          /\ req' = [req EXCEPT ![h] = Respond(req[h], 500, <<>>)]
          /\ pc' = [pc EXCEPT ![h] = "responded"]
          /\ UNCHANGED <<fetch, sweepLog>>
        ELSE IF SnapshotValid(now) THEN
          /\ req' = [req EXCEPT ![h] = [r EXCEPT !.allReferencePoints = allReferencePointsCache[1]]]
          /\ pc' = [pc EXCEPT ![h] = "fasResume"]
          /\ UNCHANGED <<fetch, sweepLog>>
        ELSE
          /\ req' = [req EXCEPT ![h] = r]
          /\ fetch' = [fetch EXCEPT ![h] = FetchStart(now)]
          /\ pc' = [pc EXCEPT ![h] = "axiosGet"]
          /\ sweepLog' = sweepLog \cup {[n |-> r.n, timeRange |-> r.timeRange, at |-> now]}
  /\ UNCHANGED <<cacheManager, cacheTrace, requestCounts, limitTrace,
                 now, ticks, allReferencePointsCache, referencePointsCacheTime,
                 floods, cache_metadata, txn, requests, batches>>

\* cache.ts 283-289 with api.ts 189-191 and 166-182: the freshness query answers.
\* Fresh: getFloods is issued.  Stale: fetchAndStoreFloods calls
\* getCachedReferencePoints, which returns the snapshot or starts the fetcher.
IsCacheValidReturn(h, ok) ==
  /\ Quiet
  /\ pc[h] = "isCacheValid"
  /\ LET cacheValid == IsCacheValid(req[h].timeRange, now)
         r == [req[h] EXCEPT !.cacheValid = cacheValid, !.calledAt = now]
     IN IF ~ok THEN
          /\ req' = [req EXCEPT ![h] = Respond(req[h], 500, <<>>)]
          /\ pc' = [pc EXCEPT ![h] = "responded"]
          /\ UNCHANGED <<fetch, sweepLog>>
        ELSE IF cacheValid THEN
          /\ req' = [req EXCEPT ![h] = r]
          /\ pc' = [pc EXCEPT ![h] = "getFloods"]
          /\ UNCHANGED <<fetch, sweepLog>>
        ELSE IF SnapshotValid(now) THEN
          /\ req' = [req EXCEPT ![h] = [r EXCEPT !.allReferencePoints = allReferencePointsCache[1]]]
          /\ pc' = [pc EXCEPT ![h] = "fasResume"]
          /\ UNCHANGED <<fetch, sweepLog>>
        ELSE
          /\ req' = [req EXCEPT ![h] = r]
          /\ fetch' = [fetch EXCEPT ![h] = FetchStart(now)]
          /\ pc' = [pc EXCEPT ![h] = "axiosGet"]
          /\ sweepLog' = sweepLog \cup {[n |-> r.n, timeRange |-> r.timeRange, at |-> now]}
  /\ UNCHANGED <<cacheManager, cacheTrace, requestCounts, limitTrace,
                 now, ticks, allReferencePointsCache, referencePointsCacheTime,
                 floods, cache_metadata, txn, requests, batches>>

\* api.ts 191-253 and 260-264: getCachedReferencePoints has returned; the floods
\* are derived and storeFloods asks the pool for a connection
FasResume(h, rnd) ==
  /\ pc[h] = "fasResume"
  /\ rnd \in [1..Len(SelectFloodingPoints(req[h].allReferencePoints)) -> RandomNumerators]
  /\ batches' = batches + 1
  /\ txn' = [txn EXCEPT ![h] =
               [TxnIdle EXCEPT !.floods = Derive(req[h].allReferencePoints,
                                                 req[h].timeRange, now, rnd),
                               !.timeRange = req[h].timeRange,
                               !.batch = batches + 1]]
  /\ pc' = [pc EXCEPT ![h] = "getConnection"]
  /\ UNCHANGED <<cacheManager, cacheTrace, requestCounts, limitTrace,
                 now, ticks, allReferencePointsCache, referencePointsCacheTime,
                 floods, cache_metadata, req, fetch, requests, sweepLog>>

----------------------------------------------------------------------------
(* Persistence store: storeFloods, api.ts 260-314 *)

\* One step of storeFloods that changes nothing committed
StoreStep(h, t, nextPc) ==
  /\ txn' = [txn EXCEPT ![h] = t]
  /\ pc' = [pc EXCEPT ![h] = nextPc]
  /\ UNCHANGED <<cacheManager, cacheTrace, requestCounts, limitTrace,
                 now, ticks, allReferencePointsCache, referencePointsCacheTime,
                 floods, cache_metadata, req, fetch, requests, batches, sweepLog>>

\* storeFloods throws; fetchAndStoreFloods rethrows (api.ts 254-257); the
\* handler answers 500 (cache.ts 299-311)
StoreThrows(h, t) ==
  /\ txn' = [txn EXCEPT ![h] = t]
  /\ req' = [req EXCEPT ![h] = Respond(req[h], 500, <<>>)]
  /\ pc' = [pc EXCEPT ![h] = "responded"]
  /\ UNCHANGED <<cacheManager, cacheTrace, requestCounts, limitTrace,
                 now, ticks, allReferencePointsCache, referencePointsCacheTime,
                 floods, cache_metadata, fetch, requests, batches, sweepLog>>

\* api.ts 264 (outside the try: a failure is thrown without rollback or release)
GetConnectionReturn(h, ok) ==
  /\ Quiet
  /\ pc[h] = "getConnection"
  /\ IF ok THEN StoreStep(h, [txn[h] EXCEPT !.connection = TRUE, !.acquired = @ + 1],
                          "beginTransaction")
     ELSE StoreThrows(h, [txn[h] EXCEPT !.outcome = "failed"])

\* api.ts 266
BeginTransactionReturn(h, ok) ==
  /\ Quiet
  /\ pc[h] = "beginTransaction"
  /\ StoreStep(h, txn[h], IF ok THEN "deleteFloods" ELSE "rollback")

\* api.ts 267-273
DeleteFloodsReturn(h, ok) ==
  /\ Quiet
  /\ pc[h] = "deleteFloods"
  /\ IF ok
     THEN StoreStep(h, [txn[h] EXCEPT !.deleted = TRUE],
                    IF Len(txn[h].floods) > 0 THEN "insertFloods" ELSE "deleteMetadata")
     ELSE StoreStep(h, txn[h], "rollback")

\* api.ts 274-290
InsertFloodsReturn(h, ok) ==
  /\ Quiet
  /\ pc[h] = "insertFloods"
  /\ IF ok /\ ~DuplicateKey(txn[h])
     THEN StoreStep(h, [txn[h] EXCEPT !.inserted = TRUE], "upsertMetadata")
     ELSE StoreStep(h, txn[h], "rollback")

\* api.ts 292-296: last_updated becomes CURRENT_TIMESTAMP of the statement
UpsertMetadataReturn(h, ok) ==
  /\ Quiet
  /\ pc[h] = "upsertMetadata"
  /\ IF ok
     THEN StoreStep(h, [txn[h] EXCEPT !.meta = "upsert", !.metaTime = SqlNow(now)], "commit")
     ELSE StoreStep(h, txn[h], "rollback")

\* api.ts 297-305
DeleteMetadataReturn(h, ok) ==
  /\ Quiet
  /\ pc[h] = "deleteMetadata"
  /\ IF ok
     THEN StoreStep(h, [txn[h] EXCEPT !.meta = "delete"], "commit")
     ELSE StoreStep(h, txn[h], "rollback")

\* A store that releases the connection at the end of the try block only
Release_AfterCommitOnly(t) ==
  IF t.outcome = "committed"
  THEN [t EXCEPT !.connection = FALSE, !.released = @ + 1]
  ELSE t

\* api.ts 311-313: finally { connection.release() }, reached from the try
\* block after COMMIT and from the catch block after ROLLBACK or its failure
Release(t) == [t EXCEPT !.connection = FALSE, !.released = @ + 1]

\* api.ts 307, 311-313, then cache.ts 289: the commit makes the transaction
\* visible, the connection is released and the handler issues getFloods
CommitReturn(h, ok) ==
  /\ Quiet
  /\ pc[h] = "commit"
  /\ IF ok
     THEN /\ floods' = CommittedFloods(txn[h])
          /\ cache_metadata' = CommittedMetadata(txn[h])
          /\ txn' = [txn EXCEPT ![h] =
                       Release([@ EXCEPT !.outcome = "committed",
                                         !.freshBefore = IsCacheValid(txn[h].timeRange, now)])]
          /\ pc' = [pc EXCEPT ![h] = "getFloods"]
     ELSE /\ UNCHANGED <<floods, cache_metadata, txn>>
          /\ pc' = [pc EXCEPT ![h] = "rollback"]
  /\ UNCHANGED <<cacheManager, cacheTrace, requestCounts, limitTrace,
                 now, ticks, allReferencePointsCache, referencePointsCacheTime,
                 req, fetch, requests, batches, sweepLog>>

\* A store whose statements take effect one by one, without a transaction
RolledBackFloods_Autocommit(t) == CommittedFloods(t)

\* ROLLBACK: what a transaction that is rolled back leaves visible
RolledBackFloods(t) == floods

RolledBackMetadata(t) == cache_metadata

\* api.ts 308-313: the transaction is undone (by ROLLBACK, or by the server
\* when the rollback itself fails and the connection goes back to the pool);
\* the connection is released; the error is thrown to fetchAndStoreFloods,
\* which rethrows (api.ts 254-257); the handler answers 500 (cache.ts 299-311)
RollbackReturn(h, ok) ==
  /\ Quiet
  /\ pc[h] = "rollback"
  /\ floods' = RolledBackFloods(txn[h])
  /\ cache_metadata' = RolledBackMetadata(txn[h])
  /\ txn' = [txn EXCEPT ![h] = Release([@ EXCEPT !.outcome = "failed"])]
  /\ req' = [req EXCEPT ![h] = Respond(req[h], 500, <<>>)]
  /\ pc' = [pc EXCEPT ![h] = "responded"]
  /\ UNCHANGED <<cacheManager, cacheTrace, requestCounts, limitTrace,
                 now, ticks, allReferencePointsCache, referencePointsCacheTime,
                 fetch, requests, batches, sweepLog>>

\* api.ts 316-323, cache.ts 289-311
GetFloodsReturn(h, ok, rows) ==
  /\ Quiet
  /\ pc[h] = "getFloods"
  /\ rows \in GetFloodsResults(req[h].timeRange)
  /\ req' = [req EXCEPT ![h] = IF ok THEN Respond(req[h], 200, rows)
                                     ELSE Respond(req[h], 500, <<>>)]
  /\ pc' = [pc EXCEPT ![h] = "responded"]
  /\ UNCHANGED <<cacheManager, cacheTrace, requestCounts, limitTrace,
                 now, ticks, allReferencePointsCache, referencePointsCacheTime,
                 floods, cache_metadata, fetch, txn, requests, batches, sweepLog>>

\* The handler has answered: its locals are gone
Finish(h) ==
  /\ Quiet
  /\ pc[h] = "responded"
  /\ pc' = [pc EXCEPT ![h] = "idle"]
  /\ req' = [req EXCEPT ![h] = ReqIdle]
  /\ txn' = [txn EXCEPT ![h] = TxnIdle]
  /\ UNCHANGED <<cacheManager, cacheTrace, requestCounts, limitTrace,
                 now, ticks, allReferencePointsCache, referencePointsCacheTime,
                 floods, cache_metadata, fetch, requests, batches, sweepLog>>

----------------------------------------------------------------------------
(* CacheManager, cache.ts 18-116 *)

\* cache.ts 23 and 119-121: cacheDurationMs, 5 minutes unless configured
cacheDuration == 5 * 60

pipelineVars ==
  <<allReferencePointsCache, referencePointsCacheTime, floods, cache_metadata,
    pc, req, fetch, txn, requests, batches, sweepLog>>

\* Map.delete
MapDelete(map, key) == [k \in DOMAIN map \ {key} |-> map[k]]

\* Map.set
MapSet(map, key, entry) ==
  [k \in DOMAIN map \cup {key} |-> IF k = key THEN entry ELSE map[k]]

\* A get that treats an entry as expired from its expiry time on
Get_ExpiredAtDeadline(m, key, t) ==
  IF key \notin DOMAIN m.cache
  THEN [manager |-> [m EXCEPT !.stats.misses = @ + 1], result |-> <<>>]
  ELSE IF t >= m.cache[key].expiresAt
  THEN LET cache == MapDelete(m.cache, key)
       IN [manager |-> [cache |-> cache,
                        stats |-> [m.stats EXCEPT !.misses = @ + 1,
                                                  !.size = Cardinality(DOMAIN cache)]],
           result |-> <<>>]
  ELSE [manager |-> [m EXCEPT !.stats.hits = @ + 1], result |-> <<m.cache[key].data>>]

\* cache.ts 37-55: get(key) at time t: the instance it leaves and what it
\* returns (<<>> for null, <<data>> for the data)
Get(m, key, t) ==
  IF key \notin DOMAIN m.cache
  THEN [manager |-> [m EXCEPT !.stats.misses = @ + 1], result |-> <<>>]
  ELSE IF t > m.cache[key].expiresAt
  THEN LET cache == MapDelete(m.cache, key)
       IN [manager |-> [cache |-> cache,
                        stats |-> [m.stats EXCEPT !.misses = @ + 1,
                                                  !.size = Cardinality(DOMAIN cache)]],
           result |-> <<>>]
  ELSE [manager |-> [m EXCEPT !.stats.hits = @ + 1], result |-> <<m.cache[key].data>>]

\* The history after a call
Called(op, key, result, lastSet) ==
  [calls |-> cacheTrace.calls + 1,
   lastSet |-> lastSet,
   last |-> [op |-> op, key |-> key, at |-> now, result |-> result]]

\* cache.ts 37-55
CacheGet(key) ==
  /\ cacheTrace.calls < MaxCacheCalls
  /\ LET got == Get(cacheManager, key, now)
     IN /\ cacheManager' = got.manager
        /\ cacheTrace' = Called("get", key, got.result, cacheTrace.lastSet)
  /\ UNCHANGED <<now, ticks, pipelineVars, requestCounts, limitTrace>>

\* cache.ts 62-70
CacheSet(key, data) ==
  /\ cacheTrace.calls < MaxCacheCalls
  /\ LET cache == MapSet(cacheManager.cache, key,
                         [data |-> data, timestamp |-> now,
                          expiresAt |-> now + cacheDuration])
     IN cacheManager' = [cache |-> cache,
                         stats |-> [cacheManager.stats EXCEPT
                                      !.size = Cardinality(DOMAIN cache)]]
  /\ cacheTrace' = Called("set", key, <<>>,
                          [cacheTrace.lastSet EXCEPT ![key] = <<[data |-> data, at |-> now]>>])
  /\ UNCHANGED <<now, ticks, pipelineVars, requestCounts, limitTrace>>

\* cache.ts 76-80: delete returns whether the key was held
CacheDelete(key) ==
  /\ cacheTrace.calls < MaxCacheCalls
  /\ LET cache == MapDelete(cacheManager.cache, key)
     IN cacheManager' = [cache |-> cache,
                         stats |-> [cacheManager.stats EXCEPT
                                      !.size = Cardinality(DOMAIN cache)]]
  /\ cacheTrace' = Called("delete", key, <<key \in DOMAIN cacheManager.cache>>,
                          [cacheTrace.lastSet EXCEPT ![key] = <<>>])
  /\ UNCHANGED <<now, ticks, pipelineVars, requestCounts, limitTrace>>

\* cache.ts 85-88
CacheClear ==
  /\ cacheTrace.calls < MaxCacheCalls
  /\ cacheManager' = CacheManagerNew
  /\ cacheTrace' = Called("clear", "", <<>>, [key \in CacheKeys |-> <<>>])
  /\ UNCHANGED <<now, ticks, pipelineVars, requestCounts, limitTrace>>

\* cache.ts 30 and 100-115: the timer of the constructor fires
CleanupExpired ==
  /\ LET expired == {key \in DOMAIN cacheManager.cache :
                       now > cacheManager.cache[key].expiresAt}
         cache == [key \in DOMAIN cacheManager.cache \ expired |-> cacheManager.cache[key]]
     IN cacheManager' =
          IF expired # {}
          THEN [cache |-> cache,
                stats |-> [cacheManager.stats EXCEPT !.size = Cardinality(DOMAIN cache)]]
          ELSE cacheManager
  /\ UNCHANGED <<now, ticks, pipelineVars, requestCounts, limitTrace, cacheTrace>>

----------------------------------------------------------------------------
(* rateLimit, middleware.ts 24-48 *)

\* cache.ts 176: windowMs of rateLimit(100, 60000), in seconds
rateLimitWindowMs == 60

\* The clients: req.ip
Ips == {"10.0.0.1", "10.0.0.2"}

\* A limiter that compares the count with > instead of >=
Limit_OffByOne(counts, ip, t) ==
  IF ip \notin DOMAIN counts \/ t > counts[ip].resetTime
  THEN [counts |-> MapSet(counts, ip, [count |-> 1, resetTime |-> t + rateLimitWindowMs]),
        status |-> 0]
  ELSE IF counts[ip].count > LimiterMaxRequests
  THEN [counts |-> counts, status |-> 429]
  ELSE [counts |-> [counts EXCEPT ![ip].count = @ + 1], status |-> 0]

\* middleware.ts 27-47: the middleware on a request of ip at time t: the Map it
\* leaves and its decision (0: next() is called, 429: the request is answered)
Limit(counts, ip, t) ==
  IF ip \notin DOMAIN counts \/ t > counts[ip].resetTime
  THEN [counts |-> MapSet(counts, ip, [count |-> 1, resetTime |-> t + rateLimitWindowMs]),
        status |-> 0]
  ELSE IF counts[ip].count >= LimiterMaxRequests
  THEN [counts |-> counts, status |-> 429]
  ELSE [counts |-> [counts EXCEPT ![ip].count = @ + 1], status |-> 0]

\* A request of ip reaches the middleware
RateLimit(ip) ==
  /\ limitTrace.calls < MaxLimiterCalls
  /\ LET limited == Limit(requestCounts, ip, now)
     IN /\ requestCounts' = limited.counts
        /\ limitTrace' =
             [calls |-> limitTrace.calls + 1,
              passes |-> IF limited.status = 0
                         THEN limitTrace.passes
                                \cup {[ip |-> ip, at |-> now, n |-> limitTrace.calls + 1]}
                         ELSE limitTrace.passes,
              last |-> [ip |-> ip, at |-> now, status |-> limited.status]]
  /\ UNCHANGED <<now, ticks, pipelineVars, cacheManager, cacheTrace>>

----------------------------------------------------------------------------
(* Time *)

\* Time passes: the clock is sampled in steps of TickSet
Tick(ms) ==
  /\ Quiet
  /\ ticks < MaxTicks
  /\ ticks' = ticks + 1
  /\ now' = now + ms
  /\ UNCHANGED <<cacheManager, cacheTrace, requestCounts, limitTrace,
                 allReferencePointsCache, referencePointsCacheTime, floods,
                 cache_metadata, pc, req, fetch, txn, requests, batches, sweepLog>>

TickSet == {FRESHNESS_INTERVAL, REFERENCE_POINTS_CACHE_TTL}

----------------------------------------------------------------------------
(* Specifications *)

\* The draws of Math.random() for the n floods of one derivation
Draws(n) == [1..n -> RandomNumerators]

\* Math.random() returning 0 for each of the n floods
NoOffsets(n) == {[i \in 1..n |-> 0]}

FloodCount(h) == Len(SelectFloodingPoints(req[h].allReferencePoints))

\* The whole pipeline: concurrent requests for two partitions, an upstream
\* that times out, answers with a page or with the end of the data, SQL
\* statements that may fail, and a clock that may jump
PipelineStatuses == {0}
PipelineRanges == {"hour", "day"}

Next ==
  \/ \E h \in Handlers, timeRange \in PipelineRanges : Request(h, timeRange)
  \/ \E h \in Handlers : IsCacheValidReturn(h, TRUE)
  \/ \E h \in Handlers :
       \E r \in UpstreamOutage(fetch[h], PipelineStatuses, PipelinePages(fetch[h].skip),
                           MaxPipelineAnswers) :
         AxiosGetReturn(h, r)
  \/ \E h \in Handlers : DelayDone(h)
  \/ \E h \in Handlers : GcrResume(h)
  \/ \E h \in Handlers : \E rnd \in Draws(FloodCount(h)) : FasResume(h, rnd)
  \/ \E h \in Handlers : GetConnectionReturn(h, TRUE)
  \/ \E h \in Handlers : BeginTransactionReturn(h, TRUE)
  \/ \E h \in Handlers : DeleteFloodsReturn(h, TRUE)
  \/ \E h \in Handlers : InsertFloodsReturn(h, TRUE)
  \/ \E h \in Handlers : UpsertMetadataReturn(h, TRUE)
  \/ \E h \in Handlers : DeleteMetadataReturn(h, TRUE)
  \/ \E h \in Handlers : CommitReturn(h, TRUE)
  \/ \E h \in Handlers :
       \E rows \in GetFloodsResults(req[h].timeRange) : GetFloodsReturn(h, TRUE, rows)
  \/ \E h \in Handlers : Finish(h)
  \/ \E ms \in TickSet : Tick(ms)

Spec == Init /\ [][Next]_vars

\* The fetcher alone: one request, every kind of upstream failure
NextFetch ==
  \/ Request(1, "hour")
  \/ IsCacheValidReturn(1, TRUE)
  \/ \E r \in Upstream(fetch[1], AllStatuses, PageSet, MaxAnswers) : AxiosGetReturn(1, r)
  \/ DelayDone(1)
  \/ GcrResume(1)

SpecFetch == Init /\ [][NextFetch]_vars

\* The store under failing SQL statements: as Spec, without the clock, with
\* every statement and every connection request failing or succeeding, and
\* with random offsets of 0
NextStore ==
  \/ \E h \in Handlers, timeRange \in PipelineRanges : Request(h, timeRange)
  \/ \E h \in Handlers, ok \in BOOLEAN : IsCacheValidReturn(h, ok)
  \/ \E h \in Handlers :
       \E r \in UpstreamOutage(fetch[h], PipelineStatuses, PipelinePages(fetch[h].skip),
                           MaxPipelineAnswers) :
         AxiosGetReturn(h, r)
  \/ \E h \in Handlers : DelayDone(h)
  \/ \E h \in Handlers : GcrResume(h)
  \/ \E h \in Handlers : \E rnd \in NoOffsets(FloodCount(h)) : FasResume(h, rnd)
  \/ \E h \in Handlers, ok \in BOOLEAN : GetConnectionReturn(h, ok)
  \/ \E h \in Handlers, ok \in BOOLEAN : BeginTransactionReturn(h, ok)
  \/ \E h \in Handlers, ok \in BOOLEAN : DeleteFloodsReturn(h, ok)
  \/ \E h \in Handlers, ok \in BOOLEAN : InsertFloodsReturn(h, ok)
  \/ \E h \in Handlers, ok \in BOOLEAN : UpsertMetadataReturn(h, ok)
  \/ \E h \in Handlers, ok \in BOOLEAN : DeleteMetadataReturn(h, ok)
  \/ \E h \in Handlers, ok \in BOOLEAN : CommitReturn(h, ok)
  \/ \E h \in Handlers, ok \in BOOLEAN : RollbackReturn(h, ok)
  \/ \E h \in Handlers, ok \in BOOLEAN :
       \E rows \in GetFloodsResults(req[h].timeRange) : GetFloodsReturn(h, ok, rows)
  \/ \E h \in Handlers : Finish(h)

SpecStore == Init /\ [][NextStore]_vars

\* The transaction of storeFloods alone under failure: as SpecStore, with the
\* two queries outside storeFloods (isCacheValid, getFloods) succeeding
NextTransaction ==
  \/ \E h \in Handlers, timeRange \in PipelineRanges : Request(h, timeRange)
  \/ \E h \in Handlers : IsCacheValidReturn(h, TRUE)
  \/ \E h \in Handlers :
       \E r \in UpstreamOutage(fetch[h], PipelineStatuses, PipelinePages(fetch[h].skip),
                           MaxPipelineAnswers) :
         AxiosGetReturn(h, r)
  \/ \E h \in Handlers : DelayDone(h)
  \/ \E h \in Handlers : GcrResume(h)
  \/ \E h \in Handlers : \E rnd \in NoOffsets(FloodCount(h)) : FasResume(h, rnd)
  \/ \E h \in Handlers, ok \in BOOLEAN : GetConnectionReturn(h, ok)
  \/ \E h \in Handlers, ok \in BOOLEAN : BeginTransactionReturn(h, ok)
  \/ \E h \in Handlers, ok \in BOOLEAN : DeleteFloodsReturn(h, ok)
  \/ \E h \in Handlers, ok \in BOOLEAN : InsertFloodsReturn(h, ok)
  \/ \E h \in Handlers, ok \in BOOLEAN : UpsertMetadataReturn(h, ok)
  \/ \E h \in Handlers, ok \in BOOLEAN : DeleteMetadataReturn(h, ok)
  \/ \E h \in Handlers, ok \in BOOLEAN : CommitReturn(h, ok)
  \/ \E h \in Handlers, ok \in BOOLEAN : RollbackReturn(h, ok)
  \/ \E h \in Handlers :
       \E rows \in GetFloodsResults(req[h].timeRange) : GetFloodsReturn(h, TRUE, rows)
  \/ \E h \in Handlers : Finish(h)

SpecTransaction == Init /\ [][NextTransaction]_vars

\* The two expiry rules: requests one after the other, a database that works,
\* random offsets of 0, and a clock that steps to either side of the 5 minutes
\* of the partitions and of the 24 hours of the snapshot
ClockTickSet ==
  {FRESHNESS_INTERVAL - 1, FRESHNESS_INTERVAL,
   REFERENCE_POINTS_CACHE_TTL - 1, REFERENCE_POINTS_CACHE_TTL}

NextClock ==
  \/ \E timeRange \in PipelineRanges : Request(1, timeRange)
  \/ IsCacheValidReturn(1, TRUE)
  \/ \E r \in UpstreamOutage(fetch[1], PipelineStatuses, PipelinePages(fetch[1].skip),
                           MaxPipelineAnswers) :
       AxiosGetReturn(1, r)
  \/ DelayDone(1)
  \/ GcrResume(1)
  \/ \E rnd \in NoOffsets(FloodCount(1)) : FasResume(1, rnd)
  \/ GetConnectionReturn(1, TRUE)
  \/ BeginTransactionReturn(1, TRUE)
  \/ DeleteFloodsReturn(1, TRUE)
  \/ InsertFloodsReturn(1, TRUE)
  \/ UpsertMetadataReturn(1, TRUE)
  \/ DeleteMetadataReturn(1, TRUE)
  \/ CommitReturn(1, TRUE)
  \/ \E rows \in GetFloodsResults(req[1].timeRange) : GetFloodsReturn(1, TRUE, rows)
  \/ Finish(1)
  \/ \E ms \in ClockTickSet : Tick(ms)

SpecClock == Init /\ [][NextClock]_vars

\* Overlapping refreshes of one partition at different times: as Spec, for the
\* partition "hour" alone, with random offsets of 0 and a clock that steps by
\* 5 minutes
NextRefresh ==
  \/ \E h \in Handlers : Request(h, "hour")
  \/ \E h \in Handlers : IsCacheValidReturn(h, TRUE)
  \/ \E h \in Handlers :
       \E r \in UpstreamOutage(fetch[h], PipelineStatuses, PipelinePages(fetch[h].skip),
                           MaxPipelineAnswers) :
         AxiosGetReturn(h, r)
  \/ \E h \in Handlers : DelayDone(h)
  \/ \E h \in Handlers : GcrResume(h)
  \/ \E h \in Handlers : \E rnd \in NoOffsets(FloodCount(h)) : FasResume(h, rnd)
  \/ \E h \in Handlers : GetConnectionReturn(h, TRUE)
  \/ \E h \in Handlers : BeginTransactionReturn(h, TRUE)
  \/ \E h \in Handlers : DeleteFloodsReturn(h, TRUE)
  \/ \E h \in Handlers : InsertFloodsReturn(h, TRUE)
  \/ \E h \in Handlers : UpsertMetadataReturn(h, TRUE)
  \/ \E h \in Handlers : DeleteMetadataReturn(h, TRUE)
  \/ \E h \in Handlers : CommitReturn(h, TRUE)
  \/ \E h \in Handlers :
       \E rows \in GetFloodsResults(req[h].timeRange) : GetFloodsReturn(h, TRUE, rows)
  \/ \E h \in Handlers : Finish(h)
  \/ Tick(FRESHNESS_INTERVAL)

SpecRefresh == Init /\ [][NextRefresh]_vars

\* The deriver on large snapshots: the process holds a snapshot of flooding
\* points, at-risk points and, possibly, one point of another kind; a request
\* for a stale partition derives the floods from it.
DigitChars == <<"0", "1", "2", "3", "4", "5", "6", "7", "8", "9">>

RECURSIVE Digits(_)
Digits(n) ==
  IF n < 10 THEN <<DigitChars[n + 1]>>
  ELSE Digits(n \div 10) \o <<DigitChars[(n % 10) + 1]>>

\* The i-th point of a snapshot, of the given kind
DerivePoint(kind, i) ==
  CASE kind = "active" ->
         RawPoint(Digits(i), <<TRUE>>, Absent, Absent, <<-90>>, <<30>>, "Baton Rouge")
    [] kind = "eligible" ->
         RawPoint(Digits(i), <<FALSE>>, <<5>>, <<7>>, <<-95>>, <<29>>, "")
    [] kind = "zeroMetric" ->
         RawPoint(Digits(i), <<FALSE>>, <<0>>, <<7>>, <<-95>>, <<29>>, "")
    [] kind = "oneMetric" ->
         RawPoint(Digits(i), <<FALSE>>, <<5>>, Absent, <<-95>>, <<29>>, "")
    [] kind = "activeNoGeometry" ->
         RawPoint(Digits(i), <<TRUE>>, Absent, Absent, Absent, <<30>>, "Baton Rouge")
    [] kind = "eligibleNoGeometry" ->
         RawPoint(Digits(i), <<FALSE>>, <<5>>, <<7>>, <<-95>>, Absent, "")

ExtraKinds == {"zeroMetric", "oneMetric", "activeNoGeometry", "eligibleNoGeometry"}

\* The points of the blocks <<kind, count>>, numbered from `first`
RECURSIVE Expand(_, _)
Expand(blocks, first) ==
  IF blocks = <<>> THEN <<>>
  ELSE [i \in 1..blocks[1][2] |-> DerivePoint(blocks[1][1], first + i - 1)]
         \o Expand(Tail(blocks), first + blocks[1][2])

ActiveCounts ==
  {0, 3, backfillThreshold - 1, backfillThreshold, backfillThreshold + 1,
   maxResults - 1, maxResults, MaxActive}

EligibleCounts ==
  {0, 1, maxResults - backfillThreshold, maxResults - backfillThreshold + 1,
   maxResults - 3, maxResults, MaxEligible}

DeriveSnapshots ==
  {Expand(blocks, 1) :
     blocks \in UNION {{<<extra, <<"active", a>>, <<"eligible", e>>>>,
                        <<<<"eligible", e>>, extra, <<"active", a>>>>} :
                         a \in ActiveCounts, e \in EligibleCounts,
                         extra \in {<<"oneMetric", 0>>} \cup {<<k, 1>> : k \in ExtraKinds}}}

\* Math.random() returning the same value for each of the n floods
UniformDraws(n) == {[i \in 1..n |-> k] : k \in RandomNumerators}

InitDerive ==
  /\ now \in {0, REFERENCE_POINTS_CACHE_TTL}
  /\ ticks = 0
  /\ allReferencePointsCache \in {<<snapshot>> : snapshot \in DeriveSnapshots}
  /\ referencePointsCacheTime = now
  /\ floods = {}
  /\ cache_metadata = {}
  /\ pc = [h \in Handlers |-> "idle"]
  /\ req = [h \in Handlers |-> ReqIdle]
  /\ fetch = [h \in Handlers |-> FetchIdle]
  /\ txn = [h \in Handlers |-> TxnIdle]
  /\ requests = 0
  /\ batches = 0
  /\ sweepLog = {}
  /\ cacheManager = CacheManagerNew
  /\ cacheTrace = CacheTraceIdle
  /\ requestCounts = RequestCountsNew
  /\ limitTrace = LimitTraceIdle

NextDerive ==
  \/ \E timeRange \in validRanges : Request(1, timeRange)
  \/ IsCacheValidReturn(1, TRUE)
  \/ \E rnd \in UniformDraws(FloodCount(1)) : FasResume(1, rnd)

SpecDerive == InitDerive /\ [][NextDerive]_vars

\* The CacheManager under every order of calls, with the clock at, just
\* before and just after an entry's expiry
CacheTickSet == {cacheDuration - 1, cacheDuration, cacheDuration + 1}

NextCache ==
  \/ \E key \in CacheKeys : CacheGet(key)
  \/ \E key \in CacheKeys, data \in CacheData : CacheSet(key, data)
  \/ \E key \in CacheKeys : CacheDelete(key)
  \/ CacheClear
  \/ CleanupExpired
  \/ \E ms \in CacheTickSet : Tick(ms)

SpecCache == Init /\ [][NextCache]_vars

\* The rate limiter under requests of two clients, with the clock at, just
\* before and just after the end of a window
LimitTickSet == {rateLimitWindowMs - 1, rateLimitWindowMs, rateLimitWindowMs + 1}

NextLimit ==
  \/ \E ip \in Ips : RateLimit(ip)
  \/ \E ms \in LimitTickSet : Tick(ms)

SpecLimit == Init /\ [][NextLimit]_vars

\* The floods endpoint under every kind of timeRange parameter: missing,
\* empty, valid, unknown, in another case, given twice
QuerySet ==
  {QueryUndefined, QueryArray("hour")}
    \cup {QueryString(string) : string \in validRanges \cup {"", "year", "HOUR"}}

NextValidate ==
  \/ \E query \in QuerySet : Receive(1, query)
  \/ IsCacheValidReturn(1, TRUE)
  \/ \E r \in UpstreamOutage(fetch[1], PipelineStatuses, PipelinePages(fetch[1].skip),
                           MaxPipelineAnswers) :
       AxiosGetReturn(1, r)
  \/ DelayDone(1)
  \/ GcrResume(1)
  \/ \E rnd \in NoOffsets(FloodCount(1)) : FasResume(1, rnd)
  \/ GetConnectionReturn(1, TRUE)
  \/ BeginTransactionReturn(1, TRUE)
  \/ DeleteFloodsReturn(1, TRUE)
  \/ InsertFloodsReturn(1, TRUE)
  \/ UpsertMetadataReturn(1, TRUE)
  \/ DeleteMetadataReturn(1, TRUE)
  \/ CommitReturn(1, TRUE)
  \/ \E rows \in GetFloodsResults(req[1].timeRange) : GetFloodsReturn(1, TRUE, rows)
  \/ Finish(1)

SpecValidate == Init /\ [][NextValidate]_vars

\* The deriver's ids: the snapshot holds two flooding points whose ids may be
\* equal, may contain the separator "_" and may end in a partition's name; two
\* requests derive their floods from it, for the same or for two partitions.
IdSet ==
  {<<"1">>, <<"2">>, <<"1", "_">>, <<"1", "_", "d", "a", "y">>,
   <<"1", "_", "h", "o", "u", "r">>, <<"_", "h", "o", "u", "r">>}

IdSnapshots ==
  {<<RawPoint(a, <<TRUE>>, Absent, Absent, <<-90>>, <<30>>, "Baton Rouge"),
     RawPoint(b, <<TRUE>>, Absent, Absent, <<-91>>, <<31>>, "Natchez")>> :
     a \in IdSet, b \in IdSet}

InitIds ==
  /\ now = 0
  /\ ticks = 0
  /\ allReferencePointsCache \in {<<snapshot>> : snapshot \in IdSnapshots}
  /\ referencePointsCacheTime = 0
  /\ floods = {}
  /\ cache_metadata = {}
  /\ pc = [h \in Handlers |-> "idle"]
  /\ req = [h \in Handlers |-> ReqIdle]
  /\ fetch = [h \in Handlers |-> FetchIdle]
  /\ txn = [h \in Handlers |-> TxnIdle]
  /\ requests = 0
  /\ batches = 0
  /\ sweepLog = {}
  /\ cacheManager = CacheManagerNew
  /\ cacheTrace = CacheTraceIdle
  /\ requestCounts = RequestCountsNew
  /\ limitTrace = LimitTraceIdle

NextIds ==
  \/ \E h \in Handlers, timeRange \in validRanges : Request(h, timeRange)
  \/ \E h \in Handlers : IsCacheValidReturn(h, TRUE)
  \/ \E h \in Handlers : \E rnd \in NoOffsets(FloodCount(h)) : FasResume(h, rnd)

SpecIds == InitIds /\ [][NextIds]_vars

----------------------------------------------------------------------------
(* Claims *)

FetchPcs == {"axiosGet", "delay", "gcrResume"}

\* C1: once the upstream has answered the current offset with an empty array
\* or a non-array payload, the fetcher issues no further upstream call: it has
\* returned the points accumulated so far.
C1_StopsAtEndOfData ==
  \A h \in Handlers : fetch[h].exhausted => pc[h] = "gcrResume"

\* C2: get() is single-flight: while a fetcher run is in progress no second
\* run is started, so at most one run is in progress at any time.
C2_SingleFlight ==
  Cardinality({h \in Handlers : pc[h] \in FetchPcs}) <= 1

StorePcs == {"getConnection", "beginTransaction", "deleteFloods", "insertFloods",
             "upsertMetadata", "deleteMetadata", "commit", "rollback"}

\* C3: storeFloods is all-or-nothing: the committed rows of floods and of
\* cache_metadata change only in the step in which a storeFloods call commits,
\* and a call that fails leaves both tables as they are and ends in an error
\* delivered to the caller (the handler answers 500).
C3_AllOrNothing ==
  [][/\ (floods' # floods \/ cache_metadata' # cache_metadata)
          => \E h \in Handlers : pc[h] = "commit" /\ txn'[h].outcome = "committed"
     /\ \A h \in Handlers :
          (txn[h].outcome # "failed" /\ txn'[h].outcome = "failed")
            => /\ floods' = floods
               /\ cache_metadata' = cache_metadata
               /\ req'[h].status = 500]_vars

\* C3 witness: a call that had deleted and inserted failed, was answered 500,
\* and the partition still holds the rows and the metadata of an earlier call.
C3_Witness ==
  \E h \in Handlers :
    /\ txn[h].outcome = "failed"
    /\ txn[h].deleted /\ txn[h].inserted
    /\ req[h].status = 500
    /\ \E row \in floods : row.time_range = txn[h].timeRange /\ row.batch # txn[h].batch
    /\ \E row \in cache_metadata : row.cache_key = txn[h].timeRange /\ row.batch # txn[h].batch

SeverityRank(severity) ==
  CASE severity = "major" -> 3
    [] severity = "moderate" -> 2
    [] severity = "minor" -> 1
    [] severity = "unknown" -> 0

\* C4: getFloods returns the records ordered by severity rank, major first,
\* then moderate, minor, unknown.
C4_MajorFirst ==
  \A h \in Handlers :
    req[h].status = 200 =>
      \A i \in 1..(Len(req[h].floods) - 1) :
        SeverityRank(req[h].floods[i].severity) >= SeverityRank(req[h].floods[i + 1].severity)

C6_StaleButAvailable ==
  [][\A h \in Handlers :
       (/\ pc[h] = "gcrResume"
        /\ pc'[h] # "gcrResume"
        /\ fetch[h].allPoints = <<>>
        /\ allReferencePointsCache # Null)
         => allReferencePointsCache' = allReferencePointsCache]_vars

\* C7: two ensureFresh calls for the same partition made less than 5 minutes
\* apart cause at most one fetcher run.
C7_OneSweepPerWindow ==
  \A a, b \in sweepLog :
    (a # b /\ a.timeRange = b.timeRange)
      => (a.at - b.at >= FRESHNESS_INTERVAL \/ b.at - a.at >= FRESHNESS_INTERVAL)

PartitionRows(timeRange) == {row \in floods : row.time_range = timeRange}

PartitionMetadata(timeRange) == {row \in cache_metadata : row.cache_key = timeRange}

\* C8: the rows of a partition, its metadata row and every result of getFloods
\* come from one storeFloods call each: rows of two calls are never mixed and
\* the metadata row belongs to the call that wrote the rows.
C8_OneRefreshVisible ==
  /\ \A timeRange \in validRanges :
       \A a, b \in PartitionRows(timeRange) \cup PartitionMetadata(timeRange) :
         a.batch = b.batch
  /\ \A h \in Handlers :
       req[h].status = 200 =>
         \A i, j \in 1..Len(req[h].floods) : req[h].floods[i].batch = req[h].floods[j].batch

\* C8 witness: two storeFloods calls for one partition, started while the
\* partition was stale, have both committed, and getFloods has answered one of
\* the two requests with the rows of the later commit.
C8_Witness ==
  \E h, g \in Handlers :
    /\ h # g
    /\ txn[h].timeRange = txn[g].timeRange
    /\ txn[h].outcome = "committed" /\ txn[g].outcome = "committed"
    /\ Len(txn[h].floods) > 0 /\ Len(txn[g].floods) > 0
    /\ req[h].status = 200 /\ Len(req[h].floods) = 2
    /\ req[h].floods[1].batch = txn[g].batch

\* C9: a metadata row of a partition exists exactly if the partition holds at
\* least one row, there is at most one, and its record_count is the number of
\* rows of the partition.
C9_MetadataIffRows ==
  \A timeRange \in validRanges :
    /\ (PartitionMetadata(timeRange) # {}) <=> (PartitionRows(timeRange) # {})
    /\ \A m \in PartitionMetadata(timeRange) :
         /\ PartitionMetadata(timeRange) = {m}
         /\ m.record_count = Cardinality(PartitionRows(timeRange))

\* C9 witness: one partition holds two rows and its metadata row while a
\* storeFloods call with an empty result has committed.
C9_Witness ==
  /\ \E m \in cache_metadata : m.record_count = 2
  /\ \E h \in Handlers : txn[h].outcome = "committed" /\ Len(txn[h].floods) = 0

\* C10: the step in which storeFloods commits an empty result leaves the
\* partition without rows and without metadata row, so that isCacheValid is
\* false right after it.
C10_EmptyResultNotFresh ==
  [][\A h \in Handlers :
       (pc[h] = "commit" /\ txn'[h].outcome = "committed" /\ Len(txn[h].floods) = 0)
         => /\ PartitionRows(txn[h].timeRange)' = {}
            /\ PartitionMetadata(txn[h].timeRange)' = {}
            /\ ~IsCacheValid(txn[h].timeRange, now)']_vars

\* C10 witness: an empty result was committed for a partition that was fresh
\* and held rows.
C10_Witness ==
  \E h \in Handlers :
    /\ txn[h].outcome = "committed"
    /\ Len(txn[h].floods) = 0
    /\ txn[h].freshBefore
    /\ pc[h] = "getFloods"
    /\ ~IsCacheValid(txn[h].timeRange, now)

Ids(rows) == {rows[i].id : i \in 1..Len(rows)}

\* C11: round trip.  The step in which storeFloods commits the records of a
\* partition leaves the partition such that every result getFloods can give
\* holds exactly the ids of these records, each once; and getFloods answers
\* with the committed rows of the partition, each once.
C11_RoundTrip ==
  [][\A h \in Handlers :
       /\ (pc[h] = "commit" /\ txn'[h].outcome = "committed")
            => \A rows \in GetFloodsResults(txn[h].timeRange)' :
                 /\ Ids(rows) = Ids(txn[h].floods)
                 /\ Len(rows) = Len(txn[h].floods)
                 /\ Cardinality(Ids(rows)) = Len(rows)
       /\ (pc[h] = "getFloods" /\ req'[h].status = 200)
            => /\ Ids(req'[h].floods) = {row.id : row \in PartitionRows(req[h].timeRange)}
               /\ Len(req'[h].floods) = Cardinality(PartitionRows(req[h].timeRange))]_vars

\* C11 witness: a second storeFloods call for a partition has committed its
\* two records after another call had committed, and getFloods has answered with
\* the two rows of the second call.
C11_Witness ==
  \E h, g \in Handlers :
    /\ h # g
    /\ txn[h].timeRange = txn[g].timeRange
    /\ txn[g].outcome = "committed" /\ txn[g].batch < txn[h].batch
    /\ txn[h].outcome = "committed" /\ txn[h].freshBefore
    /\ req[h].status = 200
    /\ Len(req[h].floods) = 2
    /\ \A i \in 1..2 : req[h].floods[i].batch = txn[h].batch

\* C12: the freshness query answers true exactly if the partition has a
\* metadata row that was written less than 5 minutes ago, and only then does the
\* handler skip the refresh.
C12_FreshIffRecentMetadata ==
  [][\A h \in Handlers :
       (pc[h] = "isCacheValid" /\ pc'[h] # "isCacheValid")
         => LET recent == \E m \in cache_metadata :
                            /\ m.cache_key = req[h].timeRange
                            /\ now - m.last_updated < FRESHNESS_INTERVAL
            IN /\ req'[h].cacheValid <=> recent
               /\ pc'[h] = "getFloods" <=> recent]_vars

\* C12 witness: exactly 5 minutes after the metadata row of the partition was
\* written the query has answered false.
C12_Witness ==
  \E h \in Handlers :
    /\ pc[h] = "fasResume"
    /\ ~req[h].cacheValid
    /\ req[h].calledAt = FRESHNESS_INTERVAL
    /\ \E m \in cache_metadata : m.cache_key = req[h].timeRange /\ m.last_updated = 0

Moves(h) == pc'[h] # pc[h]

\* C13: a request that finds its partition fresh goes straight to getFloods:
\* its steps call no upstream and leave the rows, the metadata and the snapshot
\* as they are.  A request that finds it stale obtains the reference points
\* (getCachedReferencePoints), derives the floods from them, stores them and only
\* then reads, each once and in this order.
C13_NoOpOrRefreshInOrder ==
  /\ [][\A h \in Handlers :
          /\ (Moves(h) /\ (req[h].cacheValid \/ req'[h].cacheValid))
               => /\ pc'[h] \in {"getFloods", "responded", "idle"}
                  /\ UNCHANGED <<floods, cache_metadata, allReferencePointsCache,
                                 referencePointsCacheTime, sweepLog, batches, fetch, txn>>
          /\ (Moves(h) /\ pc'[h] \in FetchPcs \cup {"fasResume"})
               => /\ pc[h] \in FetchPcs \cup {"isCacheValid"}
                  /\ ~req'[h].cacheValid
          /\ (Moves(h) /\ pc'[h] = "getConnection")
               => /\ pc[h] = "fasResume"
                  /\ txn'[h].floods
                       \in {Derive(req[h].allReferencePoints, req[h].timeRange, now, rnd) :
                              rnd \in Draws(FloodCount(h))}
          /\ (Moves(h) /\ pc'[h] = "getFloods" /\ ~req'[h].cacheValid)
               => /\ pc[h] = "commit"
                  /\ txn'[h].outcome = "committed"
                  /\ PartitionRows(req[h].timeRange)' = InsertValues(txn[h])
          /\ (Moves(h) /\ req'[h].status = 200) => pc[h] = "getFloods"]_vars
  /\ [](/\ batches <= requests
        /\ \A a, b \in sweepLog : a.n = b.n => a = b)

\* C13 witness: the second request found its partition fresh and was answered
\* with the two rows without any fetch, derivation or store of its own.
C13_Witness ==
  \E h \in Handlers :
    /\ req[h].n = 2
    /\ req[h].cacheValid
    /\ req[h].status = 200
    /\ Len(req[h].floods) = 2
    /\ txn[h] = TxnIdle
    /\ batches = 1
    /\ \A a \in sweepLog : a.n # req[h].n

\* C14: getCachedReferencePoints, called for a stale partition, returns the
\* snapshot without starting the fetcher if a snapshot exists that was taken
\* less than 24 hours ago, and starts the fetcher otherwise.
C14_SnapshotUsedFor24Hours ==
  [][\A h \in Handlers :
       (pc[h] = "isCacheValid" /\ Moves(h) /\ pc'[h] \notin {"getFloods", "responded"})
         => IF /\ allReferencePointsCache # Null
               /\ now - referencePointsCacheTime < REFERENCE_POINTS_CACHE_TTL
            THEN /\ pc'[h] = "fasResume"
                 /\ req'[h].allReferencePoints = allReferencePointsCache[1]
                 /\ UNCHANGED <<fetch, sweepLog>>
            ELSE /\ pc'[h] = "axiosGet"
                 /\ sweepLog' = sweepLog \cup {[n |-> req[h].n, timeRange |-> req[h].timeRange,
                                                at |-> now]}
                 /\ sweepLog' # sweepLog]_vars

\* C14 witness: exactly 24 hours after the snapshot was taken a request has
\* started the fetcher although the snapshot exists.
C14_Witness ==
  \E h \in Handlers :
    /\ pc[h] = "axiosGet"
    /\ req[h].calledAt = REFERENCE_POINTS_CACHE_TTL
    /\ allReferencePointsCache # Null
    /\ Len(allReferencePointsCache[1]) = 2
    /\ referencePointsCacheTime = 0

\* C15: the snapshot and its time change only together, in the one step in
\* which a getCachedReferencePoints call assigns the whole result of its fetch
\* and the time this call had read.
C15_SnapshotAndTimeTogether ==
  [][(allReferencePointsCache' # allReferencePointsCache
        \/ referencePointsCacheTime' # referencePointsCacheTime)
       => \E h \in Handlers :
            /\ pc[h] = "gcrResume" /\ Moves(h)
            /\ allReferencePointsCache' = <<fetch[h].allPoints>>
            /\ referencePointsCacheTime' = fetch[h].now]_vars

\* C15 witness: of two overlapping refreshes the one that started later has
\* assigned first, and the one that started earlier has now assigned its
\* snapshot together with its earlier time.
C15_Witness ==
  \E h, g \in Handlers :
    /\ h # g
    /\ req[h].calledAt < req[g].calledAt
    /\ \E a, b \in sweepLog : a.n = req[h].n /\ b.n = req[g].n
    /\ pc[h] = "fasResume"
    /\ pc[g] \in StorePcs \cup {"getFloods", "responded"}
    /\ allReferencePointsCache = <<req[h].allReferencePoints>>
    /\ referencePointsCacheTime = req[h].calledAt

\* C16: a request whose fetcher run had every call fail while there was no
\* snapshot is not answered normally: its floods are not stored and it does not
\* get the answer 200.
C16_UnavailableSurfaced ==
  \A h \in Handlers :
    req[h].sweep = "unavailable"
      => /\ req[h].status # 200
         /\ txn[h].outcome # "committed"

\* C17: a request whose fetcher run stopped on failures after at least one
\* page goes on with the points of the pages it got: it is not answered with an
\* error, and once its storeFloods has returned the partition holds the floods
\* derived from these points.
C17_PartialDatasetStored ==
  \A h \in Handlers :
    req[h].sweep = "partial"
      => /\ req[h].status # 500
         /\ Len(req[h].allReferencePoints) > 0
         /\ pc[h] \in {"getFloods", "responded"}
              => /\ txn[h].outcome = "committed"
                 /\ Ids(txn[h].floods)
                      = {FloodId(SelectFloodingPoints(req[h].allReferencePoints)[i].id,
                                 req[h].timeRange) : i \in 1..FloodCount(h)}
                 /\ PartitionRows(req[h].timeRange) = InsertValues(txn[h])

\* C17 witness: a request whose fetcher run got one page and then failed five
\* times was answered 200 with the two floods derived from the page.
C17_Witness ==
  \E h \in Handlers :
    /\ req[h].sweep = "partial"
    /\ req[h].status = 200
    /\ txn[h].outcome = "committed"
    /\ Len(req[h].allReferencePoints) = 2
    /\ Ids(req[h].floods) = Ids(txn[h].floods)
    /\ Len(req[h].floods) = 2

IsActive(point) == point.is_flooding = <<TRUE>>

\* An at-risk point as the specification defines it: inactive, both risk
\* metrics present
IsEligible(point) ==
  /\ point.is_flooding # <<TRUE>>
  /\ point.gage_height # Absent
  /\ point.rp_elevation # Absent

IsMajor(flood) == flood.severity = "major"

IsMinor(flood) == flood.severity = "minor"

\* C18: backfill.  From a snapshot with a < 10 active points and e eligible
\* at-risk points the derivation gives a floods of severity major and
\* min(e, 50 - a) floods of severity minor.
C18_Backfill ==
  \A h \in Handlers :
    pc[h] = "getConnection" =>
      LET a == Len(SelectSeq(req[h].allReferencePoints, IsActive))
          e == Len(SelectSeq(req[h].allReferencePoints, IsEligible))
      IN a < 10 =>
           /\ Len(SelectSeq(txn[h].floods, IsMajor)) = a
           /\ Len(SelectSeq(txn[h].floods, IsMinor)) = Min(e, 50 - a)

\* C19: cap.  A derivation gives at most 50 floods; from a snapshot with 10
\* or more active points it gives no flood of severity minor: its floods are
\* those of the first min(a, 50) active points, in the order of the snapshot.
C19_Cap ==
  \A h \in Handlers :
    pc[h] = "getConnection" =>
      LET active == SelectSeq(req[h].allReferencePoints, IsActive)
          a == Len(active)
      IN /\ Len(txn[h].floods) <= 50
         /\ a >= 10 =>
              /\ Len(SelectSeq(txn[h].floods, IsMinor)) = 0
              /\ Len(txn[h].floods) = Min(a, 50)
              /\ \A i \in 1..Min(a, 50) :
                   /\ txn[h].floods[i].id = FloodId(active[i].id, req[h].timeRange)
                   /\ txn[h].floods[i].severity = "major"

\* C19 witness: the floods of a snapshot with more than 50 active points and
\* with at-risk points have been derived.
C19_Witness ==
  \E h \in Handlers :
    /\ pc[h] = "getConnection"
    /\ Len(SelectSeq(req[h].allReferencePoints, IsActive)) > 50
    /\ Len(SelectSeq(req[h].allReferencePoints, IsEligible)) > 0
    /\ Len(txn[h].floods) = 50

LacksGeometry(point) == point.longitude = Absent \/ point.latitude = Absent

\* C20: a point without longitude or without latitude is dropped: the
\* derivation gives no flood for it.
C20_MalformedPointDropped ==
  \A h \in Handlers :
    pc[h] = "getConnection" =>
      \A i \in 1..Len(req[h].allReferencePoints) :
        LacksGeometry(req[h].allReferencePoints[i])
          => FloodId(req[h].allReferencePoints[i].id, req[h].timeRange)
               \notin Ids(txn[h].floods)

\* C21: every flood derived for partition p at time now has
\* now - windowMs(p) <= timestamp <= now, where windowMs is 3,600,000 for
\* hour, 86,400,000 for day, 604,800,000 for week and 2,592,000,000 for month
\* (the model counts seconds: 3,600, 86,400, 604,800 and 2,592,000).
C21_TimestampInWindow ==
  \A h \in Handlers :
    pc[h] = "getConnection" =>
      LET p == req[h].timeRange
          windowMs == CASE p = "hour" -> 3600
                        [] p = "day" -> 86400
                        [] p = "week" -> 604800
                        [] p = "month" -> 2592000
      IN \A i \in 1..Len(txn[h].floods) :
           /\ now - windowMs <= txn[h].floods[i].timestamp
           /\ txn[h].floods[i].timestamp <= now

\* C21 witness: floods of the month partition have been derived at a time
\* after the epoch with a random offset that is not zero.
C21_Witness ==
  \E h \in Handlers :
    /\ pc[h] = "getConnection"
    /\ req[h].timeRange = "month"
    /\ now > 0
    /\ Len(txn[h].floods) > 0
    /\ \A i \in 1..Len(txn[h].floods) : txn[h].floods[i].timestamp < now

\* C22: a flood's id is a function of the point's id and the partition only.
\* For any two derived floods, of one derivation or of two, the ids are equal
\* exactly when the points' ids are equal and the partitions are the same: the
\* same point derived twice for one partition gets the same id, the same
\* point in two partitions gets two ids, points with different ids get
\* different ids, and floods of different partitions never share an id.
C22_IdFunction ==
  \A g, h \in Handlers :
    (pc[g] = "getConnection" /\ pc[h] = "getConnection") =>
      LET gPoints == SelectFloodingPoints(req[g].allReferencePoints)
          hPoints == SelectFloodingPoints(req[h].allReferencePoints)
      IN /\ Len(txn[g].floods) = Len(gPoints)
         /\ \A i \in 1..Len(txn[g].floods), j \in 1..Len(txn[h].floods) :
              (txn[g].floods[i].id = txn[h].floods[j].id)
                <=> (/\ gPoints[i].id = hPoints[j].id
                     /\ req[g].timeRange = req[h].timeRange)

\* C22 witness: the floods of two points with different ids, one of them
\* ending in a partition's name, have been derived for two partitions.
C22_Witness ==
  /\ pc[1] = "getConnection" /\ pc[2] = "getConnection"
  /\ req[1].timeRange = "hour" /\ req[2].timeRange = "day"
  /\ Len(txn[1].floods) = 2 /\ Len(txn[2].floods) = 2
  /\ req[1].allReferencePoints[1].id = <<"1", "_", "d", "a", "y">>
  /\ req[1].allReferencePoints[2].id = <<"1">>

\* C23: per-page retry budget.  For one page offset the fetcher makes at most
\* 5 attempts: no upstream call is issued for an offset that has been called 5
\* times, and the attempt counter is 0 when the first call of an offset is
\* issued.
C23_RetryBudget ==
  \A h \in Handlers :
    /\ CallsAt(fetch[h]) <= 5
    /\ pc[h] = "axiosGet" => CallsAt(fetch[h]) < 5
    /\ (pc[h] = "axiosGet" /\ CallsAt(fetch[h]) = 0) => fetch[h].retries = 0

FailsWith(h, status) ==
  /\ pc[h] = "axiosGet"
  /\ fetch'[h].errors = Append(fetch[h].errors, status)

\* C24: class-A backoff.  After the k-th failed attempt of a page, if it
\* failed with HTTP 403, the fetcher waits 3 s * 2^(k-1), that is 3, 6, 12, 24
\* or 48 s.  When the first two attempts of a page failed with 403 and the
\* third call fetches the page, exactly 3 calls have been made for the page and
\* 9 s or more of waiting precede the third call.
C24_Backoff403 ==
  [][\A h \in Handlers :
       /\ FailsWith(h, 403) =>
            LET k == Len(fetch'[h].errors)
            IN /\ k \in 1..5
               /\ pc'[h] = "delay"
               /\ fetch'[h].lastWait = <<3, 6, 12, 24, 48>>[k]
               /\ fetch'[h].waited = fetch[h].waited + fetch'[h].lastWait
       /\ (/\ pc[h] = "axiosGet"
           /\ fetch[h].errors = <<403, 403>>
           /\ CallsAt(fetch[h]) = 2
           /\ fetch'[h].skip # fetch[h].skip) =>
            /\ fetch'[h].attempted = [skip |-> fetch[h].skip, calls |-> 3]
            /\ fetch[h].waited >= 9]_vars

\* C24 witness: a page has been fetched by the third call, after two calls
\* that failed with 403 and waits of 3 s and 6 s.
C24_Witness ==
  \E h \in Handlers :
    /\ pc[h] = "delay"
    /\ fetch[h].success
    /\ fetch[h].errors = <<403, 403>>
    /\ fetch[h].attempted.calls = 3
    /\ fetch[h].waited = 3 + 6 + politenessDelay

\* C25: after the k-th failed attempt of a page, if it failed with HTTP 429,
\* the fetcher waits 10 s * k.  A failure of any other kind (another status,
\* or no response at all, as on the request timeout) is followed by a wait of
\* 2 s before the next attempt (after the 5th failed attempt of the page there
\* is none: the fetch returns); it uses up one attempt of the page's budget and
\* adds one to the consecutive-failure counter, as every failure does.
C25_Backoff429AndOther ==
  [][\A h \in Handlers :
       /\ FailsWith(h, 429) =>
            LET k == Len(fetch'[h].errors)
            IN /\ k \in 1..5
               /\ pc'[h] = "delay"
               /\ fetch'[h].lastWait = 10 * k
       /\ \A status \in AllStatuses \ {403, 429} :
            FailsWith(h, status) =>
              \/ pc'[h] = "delay" /\ fetch'[h].lastWait = 2
              \/ pc'[h] = "gcrResume" /\ fetch'[h].retries = 5
       /\ \A status \in AllStatuses :
            FailsWith(h, status) =>
              /\ fetch'[h].retries = fetch[h].retries + 1
              /\ fetch'[h].consecutiveErrors = fetch[h].consecutiveErrors + 1]_vars

\* C25 witness: the first attempt of a page got no response and the second
\* failed with 429: the fetcher has waited 2 s and is waiting 20 s.
C25_Witness ==
  \E h \in Handlers :
    /\ pc[h] = "delay"
    /\ fetch[h].errors = <<0, 429>>
    /\ fetch[h].lastWait = 20
    /\ fetch[h].waited = 22
    /\ fetch[h].consecutiveErrors = 2

\* C26: politeness delay.  After every successful call the fetcher pauses 1 s
\* before it issues the next upstream call: no call follows a successful call
\* without a delay in between.
C26_PolitenessDelay ==
  [][\A h \in Handlers :
       (pc[h] = "axiosGet" /\ fetch'[h].answered = fetch[h].answered + 1) =>
         \/ pc'[h] = "delay" /\ fetch'[h].lastWait = 1
         \/ pc'[h] = "gcrResume"]_vars

\* C27: the 5-minute freshness window of a partition is independent of the
\* 24-hour life of the snapshot.  A request that finds its partition stale
\* while the snapshot is younger than 24 hours makes no upstream call: it
\* derives the floods from the snapshot it reuses and replaces the partition's
\* rows by them.  The steps of a partition refresh (derivation and storeFloods)
\* leave the snapshot and its time as they are.
C27_WindowsIndependent ==
  [][\A h \in Handlers :
       /\ (/\ pc[h] = "isCacheValid" /\ Moves(h)
           /\ pc'[h] # "responded"
           /\ ~req'[h].cacheValid
           /\ allReferencePointsCache # Null
           /\ now - referencePointsCacheTime < 24 * 60 * 60)
            => /\ pc'[h] = "fasResume"
               /\ req'[h].allReferencePoints = allReferencePointsCache[1]
               /\ UNCHANGED <<fetch, sweepLog>>
       /\ (pc[h] = "fasResume" /\ Moves(h) /\ req[h].sweep = "none")
            => /\ pc'[h] = "getConnection"
               /\ req[h].allReferencePoints = allReferencePointsCache[1]
               /\ txn'[h].floods
                    \in {Derive(allReferencePointsCache[1], req[h].timeRange, now, rnd) :
                           rnd \in Draws(FloodCount(h))}
       /\ (pc[h] = "commit" /\ Moves(h) /\ pc'[h] = "getFloods")
            => PartitionRows(req[h].timeRange)' = InsertValues(txn[h])
       /\ (Moves(h) /\ pc[h] \in {"isCacheValid", "fasResume", "getFloods"} \cup StorePcs)
            => UNCHANGED <<allReferencePointsCache, referencePointsCacheTime>>]_vars

\* C27 witness: five minutes after the snapshot was fetched and the partition
\* was stored, a request found the partition stale, fetched nothing and has
\* replaced the partition's rows by floods derived again from the snapshot.
C27_Witness ==
  \E h \in Handlers :
    /\ pc[h] = "getFloods"
    /\ req[h].n = 2
    /\ ~req[h].cacheValid
    /\ req[h].sweep = "none"
    /\ now = FRESHNESS_INTERVAL
    /\ referencePointsCacheTime = 0
    /\ Cardinality(sweepLog) = 1
    /\ batches = 2
    /\ PartitionRows(req[h].timeRange) # {}
    /\ \A row \in PartitionRows(req[h].timeRange) : row.timestamp = FRESHNESS_INTERVAL

\* C28: the fetcher does not write the source cache.  No step of a fetcher
\* run (a call that returns, a delay that ends) changes the snapshot or its
\* time: they are assigned only by getCachedReferencePoints, in the step that
\* follows the return of the run.
C28_FetcherLeavesCache ==
  [][/\ \A h \in Handlers :
          (pc[h] \in {"axiosGet", "delay"} /\ (Moves(h) \/ fetch'[h] # fetch[h]))
            => UNCHANGED <<allReferencePointsCache, referencePointsCacheTime>>
     /\ (allReferencePointsCache' # allReferencePointsCache
           \/ referencePointsCacheTime' # referencePointsCacheTime)
          => \E h \in Handlers :
               /\ pc[h] = "gcrResume" /\ pc'[h] = "fasResume"
               /\ fetch[h].stop # "none"
               /\ fetch'[h] = FetchIdle]_vars

\* C28 witness: a run has fetched a page and is going on while there is still
\* no snapshot.
C28_Witness ==
  \E h \in Handlers :
    /\ pc[h] \in {"axiosGet", "delay"}
    /\ Len(fetch[h].allPoints) > 0
    /\ fetch[h].retries > 0
    /\ allReferencePointsCache = Null
    /\ referencePointsCacheTime = 0

\* C29: CacheManager.get(key) returns the data most recently set for key as
\* long as the time of the call is not after the time of that set plus
\* cacheDuration; after that time it returns null and the entry is removed.
\* For a key that was never set, or was deleted or cleared since it was set,
\* it returns null.
C29_GetReturnsLatestUntilExpiry ==
  LET last == cacheTrace.last
      set == cacheTrace.lastSet[last.key]
  IN last.op = "get" =>
       IF set = <<>> THEN last.result = <<>>
       ELSE IF last.at <= set[1].at + 5 * 60 THEN last.result = <<set[1].data>>
       ELSE /\ last.result = <<>>
            /\ last.key \notin DOMAIN cacheManager.cache

\* C29 witness: a key was set twice, the second time 5 minutes before the
\* call of get that has returned the second data at the very end of its life.
C29_Witness ==
  LET last == cacheTrace.last
  IN /\ last.op = "get"
     /\ cacheTrace.calls = 3
     /\ cacheTrace.lastSet[last.key] # <<>>
     /\ last.at = cacheTrace.lastSet[last.key][1].at + cacheDuration
     /\ last.result = <<"b">>
     /\ cacheManager.stats.hits = 1

\* C31: a fetch that returned zero points is not kept as a valid snapshot: a
\* later getCachedReferencePoints does not serve the empty sequence from the
\* cache, it starts a new fetch.
C31_EmptySnapshotNotServed ==
  \A h \in Handlers :
    (pc[h] = "fasResume" /\ req[h].sweep = "none") => req[h].allReferencePoints # <<>>

\* C32: the time of the snapshot never decreases: of two overlapping
\* refreshes the one that started earlier never overwrites the snapshot and
\* the time installed by the one that started later.
C32_FetchedAtMonotone ==
  [][referencePointsCacheTime' >= referencePointsCacheTime]_vars

\* The items of a sequence of pages, in order
RECURSIVE Concatenation(_)
Concatenation(pages) ==
  IF pages = <<>> THEN <<>> ELSE pages[1].data \o Concatenation(Tail(pages))

\* C33: the offset starts at 0 and grows by exactly 10 with each non-empty
\* page; a failed attempt leaves the offset and the accumulated points as they
\* are, so the retry requests the same offset.  The i-th non-empty page was
\* requested with offset 10 * (i - 1): no offset is skipped and none is
\* fetched twice, and the accumulated (and finally returned) sequence is the
\* concatenation of these pages in the order of their offsets.
C33_Pagination ==
  /\ [](\A h \in Handlers :
          LET f == fetch[h]
          IN /\ f.skip = 10 * Len(f.pages)
             /\ \A i \in 1..Len(f.pages) :
                  f.pages[i].skip = 10 * (i - 1) /\ f.pages[i].data # <<>>
             /\ f.allPoints = Concatenation(f.pages))
  /\ [][\A h \in Handlers :
          /\ (\E status \in AllStatuses : FailsWith(h, status))
               => /\ fetch'[h].skip = fetch[h].skip
                  /\ fetch'[h].allPoints = fetch[h].allPoints
          /\ (pc[h] = "isCacheValid" /\ pc'[h] = "axiosGet")
               => fetch'[h].skip = 0 /\ fetch'[h].allPoints = <<>>]_vars

\* C33 witness: a run that fetched two pages, the second after failed
\* attempts, has returned their points after five failures at offset 20.
C33_Witness ==
  \E h \in Handlers :
    /\ pc[h] = "gcrResume"
    /\ Len(fetch[h].pages) = 2
    /\ fetch[h].pages[1].data # fetch[h].pages[2].data
    /\ fetch[h].skip = 20
    /\ fetch[h].attempted = [skip |-> 20, calls |-> 5]
    /\ Len(fetch[h].allPoints) = 2

\* C34: an inactive point is eligible for backfill exactly when both risk
\* metrics are present on it, a metric of value 0 being present: when fewer
\* than 10 points are active and the cap of 50 cuts nothing off, the floods of
\* severity minor are those of the inactive points with both metrics present.
C34_EligibleIffBothMetricsPresent ==
  \A h \in Handlers :
    pc[h] = "getConnection" =>
      LET active == SelectSeq(req[h].allReferencePoints, IsActive)
          eligible == SelectSeq(req[h].allReferencePoints, IsEligible)
          minor == SelectSeq(txn[h].floods, IsMinor)
      IN (Len(active) < 10 /\ Len(active) + Len(eligible) <= 50) =>
           Ids(minor) = {FloodId(eligible[i].id, req[h].timeRange) : i \in 1..Len(eligible)}

\* C35: after the 5th failed attempt of a page the fetcher returns without
\* another backoff sleep, whatever the status of the last failure.
C35_NoSleepAfterLastAttempt ==
  [][\A h \in Handlers :
       ((\E status \in AllStatuses : FailsWith(h, status)) /\ fetch'[h].retries = 5)
         => pc'[h] = "gcrResume"]_vars

\* C36: partition isolation.  No step of a request for partition p, whether
\* its storeFloods commits or rolls back, changes the rows or the metadata row
\* of another partition q.
C36_PartitionIsolation ==
  [][\A h \in Handlers :
       (Moves(h) /\ pc[h] # "idle") =>
         \A q \in validRanges \ {req[h].timeRange} :
           /\ PartitionRows(q)' = PartitionRows(q)
           /\ PartitionMetadata(q)' = PartitionMetadata(q)]_vars

\* C36 witness: after the partition hour was stored, a storeFloods for day
\* has committed, and the rows and the metadata of hour are those of the
\* earlier call.
C36_Witness ==
  \E h \in Handlers :
    /\ txn[h].timeRange = "day"
    /\ txn[h].outcome = "committed"
    /\ PartitionRows("day") # {}
    /\ PartitionRows("hour") # {}
    /\ \A row \in PartitionRows("hour") \cup PartitionMetadata("hour") : row.batch # txn[h].batch
    /\ PartitionMetadata("hour") # {}

\* C37: every partition key the floods endpoint works with is one of hour,
\* day, week, month.  A request whose timeRange is any other value is answered
\* 400 in the step in which it arrives, and that step touches neither the
\* snapshot, nor the upstream, nor the tables; a request without timeRange
\* (or with an empty one) is served as hour.
C37_ValidatedTimeRange ==
  /\ [](/\ \A h \in Handlers :
             /\ req[h].timeRange \in {"hour", "day", "week", "month"}
             /\ txn[h].timeRange \in {"hour", "day", "week", "month"}
             /\ (req[h].n > 0 /\ ~QueryTruthy(req[h].query)) =>
                  req[h].timeRange = "hour" /\ req[h].status # 400
             /\ (req[h].n > 0 /\ QueryTruthy(req[h].query)) =>
                  IF /\ req[h].query.kind = "string"
                     /\ req[h].query.value \in {"hour", "day", "week", "month"}
                  THEN req[h].timeRange = req[h].query.value /\ req[h].status # 400
                  ELSE req[h].status = 400 /\ pc[h] = "responded"
        /\ \A row \in floods : row.time_range \in {"hour", "day", "week", "month"}
        /\ \A row \in cache_metadata : row.cache_key \in {"hour", "day", "week", "month"}
        /\ \A sweep \in sweepLog : sweep.timeRange \in {"hour", "day", "week", "month"})
  /\ [][\A h \in Handlers :
          req'[h].status = 400 =>
            UNCHANGED <<allReferencePointsCache, referencePointsCacheTime, floods,
                        cache_metadata, fetch, txn, batches, sweepLog,
                        cacheManager, cacheTrace>>]_vars

\* C37 witness: after the partition hour was stored, a request for the
\* unknown timeRange "year" has been answered 400.
C37_Witness ==
  \E h \in Handlers :
    /\ req[h].n = 2
    /\ req[h].query = QueryString("year")
    /\ req[h].status = 400
    /\ PartitionRows("hour") # {}
    /\ batches = 1
    /\ Cardinality(sweepLog) = 1

\* The requests of ip that the limiter passed on between two times
PassesIn(ip, from, to) ==
  Cardinality({pass \in limitTrace.passes :
                 pass.ip = ip /\ from <= pass.at /\ pass.at <= to})

\* C38: the rate limiter passes on at most maxRequests requests of one client
\* within one window: the count of a client never exceeds maxRequests and is
\* the number of its requests passed on in the window; a further request in
\* the window is answered 429 and is not passed on; the first request after
\* the window's resetTime starts a new window with count 1; a request of one
\* client leaves the records of the other clients as they are.
C38_RateLimit ==
  /\ [](\A ip \in DOMAIN requestCounts :
          LET record == requestCounts[ip]
          IN /\ record.count \in 1..LimiterMaxRequests
             /\ PassesIn(ip, record.resetTime - rateLimitWindowMs, record.resetTime) = record.count)
  /\ [][limitTrace'.calls # limitTrace.calls =>
          LET ip == limitTrace'.last.ip
          IN /\ \A other \in DOMAIN requestCounts \ {ip} :
                  /\ other \in DOMAIN requestCounts'
                  /\ requestCounts'[other] = requestCounts[other]
             /\ (ip \in DOMAIN requestCounts /\ now <= requestCounts[ip].resetTime) =>
                  IF requestCounts[ip].count >= LimiterMaxRequests
                  THEN /\ limitTrace'.last.status = 429
                       /\ limitTrace'.passes = limitTrace.passes
                       /\ requestCounts' = requestCounts
                  ELSE /\ limitTrace'.last.status = 0
                       /\ requestCounts'[ip].count = requestCounts[ip].count + 1
                       /\ requestCounts'[ip].resetTime = requestCounts[ip].resetTime
             /\ (ip \notin DOMAIN requestCounts \/ now > requestCounts[ip].resetTime) =>
                  /\ limitTrace'.last.status = 0
                  /\ requestCounts'[ip] = [count |-> 1, resetTime |-> now + rateLimitWindowMs]]_vars

\* C38 witness: a client that had used up its window and was answered 429
\* has made the first request after resetTime, which was passed on, while
\* the other client's record is still that of the first window.
C38_Witness ==
  \E ip, other \in DOMAIN requestCounts :
    /\ ip # other
    /\ limitTrace.last = [ip |-> ip, at |-> rateLimitWindowMs + 1, status |-> 0]
    /\ requestCounts[ip] = [count |-> 1, resetTime |-> 2 * rateLimitWindowMs + 1]
    /\ PassesIn(ip, 0, rateLimitWindowMs) = LimiterMaxRequests
    /\ limitTrace.calls = MaxLimiterCalls
    /\ requestCounts[other].resetTime = rateLimitWindowMs
    /\ Cardinality(limitTrace.passes) = MaxLimiterCalls - 1

\* C39: storeFloods gives back the connection it got exactly once on every
\* path: while it runs between getConnection and the end of the transaction
\* it holds one connection that it has not released; once it has returned
\* (by COMMIT, or by a failing statement followed by ROLLBACK, whether the
\* ROLLBACK works or not) it has released what it acquired, once, and holds
\* nothing; a call whose getConnection failed acquired and released nothing.
C39_ConnectionReleasedOnce ==
  \A h \in Handlers :
    LET t == txn[h]
        inTransaction == pc[h] \in {"beginTransaction", "deleteFloods", "insertFloods",
                                    "upsertMetadata", "deleteMetadata", "commit",
                                    "rollback"}
    IN /\ t.released <= t.acquired
       /\ t.acquired <= 1
       /\ t.connection <=> (t.acquired = 1 /\ t.released = 0)
       /\ t.connection <=> inTransaction
       /\ t.outcome = "committed" => (t.acquired = 1 /\ t.released = 1)
       /\ t.outcome = "failed" => t.released = t.acquired

\* C39 witness: of two calls of storeFloods one has committed and one has
\* been rolled back after a failing statement that followed its DELETE; each
\* has acquired one connection and released it, and none is held.
C39_Witness ==
  \E h, other \in Handlers :
    /\ txn[h].outcome = "committed"
    /\ txn[h].released = 1
    /\ txn[other].outcome = "failed"
    /\ txn[other].deleted
    /\ txn[other].acquired = 1
    /\ txn[other].released = 1
    /\ \A any \in Handlers : ~txn[any].connection

====
